---------------------------- MODULE Spec2Model ----------------------------
(***************************************************************************)
(* Model of the openclaw-manager control plane: the ticket store and the   *)
(* streaming endpoints of lib/server.js, the session gate of server mode,  *)
(* and the profile store, port allocator and setup pipeline of             *)
(* lib/configure.js.                                                       *)
(*                                                                         *)
(* Strings are sequences of atoms (one atom per character where the        *)
(* characters matter, as in profile names).  JSON values are tagged        *)
(* tuples <<tag, payload>>; a file is NoFile, Unparsable or a JSON value.  *)
(***************************************************************************)
EXTENDS Integers, Sequences, FiniteSets, TLC

(***************************************************************************)
(* Bounds of the model                                                     *)
(***************************************************************************)
MaxTickets == 2      \* tickets issued in a run of the ticket specification
MaxTicks == 3        \* clock advances in a run of the ticket specification
MaxSetups == 3       \* setup tickets issued in a run of the profile specification
MaxPortOffset == 2   \* initial hosts hold ports BASE_PORT .. BASE_PORT + MaxPortOffset
MaxLines == 1        \* output lines of one onboarding subprocess

(***************************************************************************)
(* JSON values                                                             *)
(***************************************************************************)
Undefined == <<"undefined">>
JNull == <<"null">>
JBool(b) == <<"bool", b>>
JNum(n) == <<"num", n>>
JStr(s) == <<"str", s>>
JArr(a) == <<"arr", a>>
JObj(f) == <<"obj", f>>
EmptyObj == JObj(<<>>)

IsObj(v) == v[1] = "obj"
IsArr(v) == v[1] = "arr"

\* JavaScript truthiness of a value
Truthy(v) ==
  CASE v[1] = "undefined" -> FALSE
    [] v[1] = "null" -> FALSE
    [] v[1] = "bool" -> v[2]
    [] v[1] = "num" -> v[2] # 0
    [] v[1] = "str" -> Len(v[2]) > 0
    [] OTHER -> TRUE

\* v.key : a property read (of an object: its member; of anything else that
\* is not null or undefined: undefined)
Get(v, key) ==
  IF IsObj(v) /\ key \in DOMAIN v[2] THEN v[2][key] ELSE Undefined

\* obj with obj.key = val
Put(v, key, val) ==
  JObj([k \in (DOMAIN v[2]) \cup {key} |-> IF k = key THEN val ELSE v[2][k]])

(***************************************************************************)
(* lib/configure.js: deepMerge                                             *)
(***************************************************************************)
IsPlainObject(v) == Truthy(v) /\ IsObj(v)

\* a merge that appends the source's array to the target's
RECURSIVE deepMergeConcat(_, _)
deepMergeConcat(target, source) ==
  JObj([key \in (DOMAIN target[2]) \cup (DOMAIN source[2]) |->
         IF key \in DOMAIN source[2]
         THEN IF IsPlainObject(source[2][key]) /\ IsPlainObject(Get(target, key))
              THEN deepMergeConcat(target[2][key], source[2][key])
              ELSE IF IsArr(source[2][key]) /\ IsArr(Get(target, key))
              THEN JArr(target[2][key][2] \o source[2][key][2])
              ELSE source[2][key]
         ELSE target[2][key]])

\* a merge that keeps what the target has, whatever it is
RECURSIVE deepMergeKeepTarget(_, _)
deepMergeKeepTarget(target, source) ==
  JObj([key \in (DOMAIN target[2]) \cup (DOMAIN source[2]) |->
         IF key \in DOMAIN target[2]
         THEN IF IsPlainObject(Get(source, key)) /\ IsPlainObject(target[2][key])
              THEN deepMergeKeepTarget(target[2][key], source[2][key])
              ELSE target[2][key]
         ELSE source[2][key]])

\* a merge of the top level only
deepMergeShallow(target, source) ==
  JObj([key \in (DOMAIN target[2]) \cup (DOMAIN source[2]) |->
         IF key \in DOMAIN source[2] THEN source[2][key] ELSE target[2][key]])

RECURSIVE deepMerge(_, _)
deepMerge(target, source) ==
  JObj([key \in (DOMAIN target[2]) \cup (DOMAIN source[2]) |->
         IF key \in DOMAIN source[2]
         THEN IF IsPlainObject(source[2][key]) /\ IsPlainObject(Get(target, key))
              THEN deepMerge(target[2][key], source[2][key])
              ELSE source[2][key]
         ELSE target[2][key]])

(***************************************************************************)
(* The home directory: dir name -> content of its openclaw.json            *)
(***************************************************************************)
NoFile == <<"nofile">>
Unparsable == <<"unparsable">>

DEFAULT == <<"d", "e", "f", "a", "u", "l", "t">>
BASE_PORT == 28789

\* a directory that ignores the name of a named profile
profileDirFlat(profile) ==
  IF profile = DEFAULT THEN <<".openclaw">> ELSE <<".openclaw-">>

profileDir(profile) ==
  IF profile = DEFAULT THEN <<".openclaw">> ELSE <<".openclaw-">> \o profile

existsDir(fs, dir) == dir \in DOMAIN fs
existsCfg(fs, profile) ==
  existsDir(fs, profileDir(profile)) /\ fs[profileDir(profile)] # NoFile

\* a listing that misses the named profiles
listProfilesDefaultOnly(fs) ==
  IF existsDir(fs, <<".openclaw">>) /\ fs[<<".openclaw">>] # NoFile THEN {DEFAULT} ELSE {}

\* JSON.parse(readFileSync(configPath(profile))) succeeds
Parses(fs, profile) ==
  existsCfg(fs, profile) /\ fs[profileDir(profile)] # Unparsable

listProfiles(fs) ==
  (IF existsDir(fs, <<".openclaw">>) /\ fs[<<".openclaw">>] # NoFile
   THEN {DEFAULT} ELSE {})
  \cup
  { SubSeq(d, 2, Len(d)) : d \in
      { e \in DOMAIN fs : /\ e[1] = ".openclaw-"
                          /\ Len(e) > 1
                          /\ fs[e] # NoFile } }

\* a readPort without the default: port 0 comes back when the file cannot be
\* read or parsed
readPortZero(fs, profile) ==
  IF Parses(fs, profile)
  THEN LET cfg == fs[profileDir(profile)]
       IN IF cfg # JNull /\ Truthy(Get(cfg, "gateway"))
                         /\ Truthy(Get(Get(cfg, "gateway"), "port"))
          THEN Get(Get(cfg, "gateway"), "port")
          ELSE JNum(BASE_PORT)
  ELSE JNum(0)

\* the value readPort returns: cfg.gateway.port when truthy, else BASE_PORT
readPort(fs, profile) ==
  IF Parses(fs, profile)
  THEN LET cfg == fs[profileDir(profile)]
       IN IF cfg # JNull /\ Truthy(Get(cfg, "gateway"))
                         /\ Truthy(Get(Get(cfg, "gateway"), "port"))
          THEN Get(Get(cfg, "gateway"), "port")
          ELSE JNum(BASE_PORT)
  ELSE JNum(BASE_PORT)

usedPorts(fs) == { readPort(fs, p) : p \in listProfiles(fs) }

RECURSIVE scanPort(_, _)
scanPort(used, port) ==
  IF JNum(port) \in used THEN scanPort(used, port + 1) ELSE port

\* an allocator that counts the profiles instead of scanning their ports
nextAvailablePortByCount(fs) == BASE_PORT + Cardinality(listProfiles(fs))

\* an allocator that goes one past the highest port in use
nextAvailablePortPastMax(fs) ==
  LET nums == { v[2] : v \in { u \in usedPorts(fs) : u[1] = "num" } }
      above == { n \in nums : n >= BASE_PORT }
  IN IF above = {} THEN BASE_PORT
     ELSE 1 + CHOOSE n \in above : \A m \in above : m <= n

nextAvailablePort(fs) == scanPort(usedPorts(fs), BASE_PORT)


(***************************************************************************)
(* Strings                                                                 *)
(***************************************************************************)
Empty == <<>>

\* white space String.prototype.trim removes (those the inputs use)
WhiteSpace == {" ", "\t", "\n", "\r"}

RECURSIVE trimLeft(_)
trimLeft(s) == IF Len(s) > 0 /\ s[1] \in WhiteSpace THEN trimLeft(Tail(s)) ELSE s

RECURSIVE trimRight(_)
trimRight(s) ==
  IF Len(s) > 0 /\ s[Len(s)] \in WhiteSpace THEN trimRight(SubSeq(s, 1, Len(s) - 1)) ELSE s

\* String.prototype.trim
trim(s) == trimRight(trimLeft(s))

\* (x || dflt): a missing or empty field falls back to dflt
OrElse(x, dflt) == IF Len(x) > 0 THEN x ELSE dflt

NameChars ==
  { "a", "b", "c", "d", "e", "f", "g", "h", "i", "j", "k", "l", "m",
    "n", "o", "p", "q", "r", "s", "t", "u", "v", "w", "x", "y", "z",
    "A", "B", "C", "D", "E", "F", "G", "H", "I", "J", "K", "L", "M",
    "N", "O", "P", "Q", "R", "S", "T", "U", "V", "W", "X", "Y", "Z",
    "0", "1", "2", "3", "4", "5", "6", "7", "8", "9", "_", "-" }

MAX_NAME == 32

\* a check of the length only
validateProfileNameLengthOnly(name) ==
  IF Len(name) > MAX_NAME /\ name # DEFAULT
  THEN "Profile name too long (max 32 characters)" ELSE "ok"

\* "ok", or the error validateProfileName throws
validateProfileName(name) ==
  IF Len(name) = 0 \/ name = DEFAULT THEN "ok"
  ELSE IF Len(name) > MAX_NAME THEN "Profile name too long (max 32 characters)"
  ELSE IF \E i \in 1..Len(name) : name[i] \notin NameChars
       THEN "Profile name can only contain letters, numbers, hyphens and underscores"
  ELSE "ok"

profileArgs(profile) == IF profile = DEFAULT THEN <<>> ELSE <<"--profile", profile>>

\* the decimal digit d as a character
Digit(d) == <<"0", "1", "2", "3", "4", "5", "6", "7", "8", "9">>[d + 1]

\* String(n) for a non-negative integer: its decimal digits, no leading zero
RECURSIVE NumString(_)
NumString(n) == IF n < 10 THEN <<Digit(n)>> ELSE Append(NumString(n \div 10), Digit(n % 10))

\* the argument list runSetupStream hands to spawn("openclaw", args)
onboardArgs(profile, port) ==
  profileArgs(profile) \o
  <<"onboard", "--install-daemon", "--flow", "quickstart", "--accept-risk",
    "--skip-skills", "--skip-channels", "--skip-ui", "--skip-health",
    "--non-interactive", "--gateway-port", NumString(port)>>

(***************************************************************************)
(* lib/configure.js: MODEL_CATALOG and generateConfig                      *)
(***************************************************************************)
OPUS46 == <<"claude-opus-4-6">>
OPUS45 == <<"claude-opus-4-5-20251101">>
SONNET45 == <<"claude-sonnet-4-5-20250929">>
HAIKU45 == <<"claude-haiku-4-5-20251001">>
OPUS41 == <<"claude-opus-4-1-20250805">>
SONNET4 == <<"claude-sonnet-4-20250514">>

MODEL_CATALOG ==
  << [id |-> OPUS46, name |-> <<"Claude Opus 4.6">>],
     [id |-> OPUS45, name |-> <<"Claude Opus 4.5">>],
     [id |-> SONNET45, name |-> <<"Claude Sonnet 4.5">>],
     [id |-> HAIKU45, name |-> <<"Claude Haiku 4.5">>],
     [id |-> OPUS41, name |-> <<"Claude Opus 4.1">>],
     [id |-> SONNET4, name |-> <<"Claude Sonnet 4">>] >>

InCatalog(modelId) == \E i \in 1..Len(MODEL_CATALOG) : MODEL_CATALOG[i].id = modelId

\* a lookup that gives the first entry whatever the id
catalogFirst(modelId) == MODEL_CATALOG[1]

\* MODEL_CATALOG.find(m => m.id === modelId): the first match
catalogFind(modelId) ==
  MODEL_CATALOG[CHOOSE i \in 1..Len(MODEL_CATALOG) :
                  /\ MODEL_CATALOG[i].id = modelId
                  /\ \A j \in 1..(i - 1) : MODEL_CATALOG[j].id # modelId]

TELEGRAM == <<"telegram">>
FEISHU == <<"feishu">>

generateConfig(apiKey, modelId, channel, channelCreds, port) ==
  LET model == IF InCatalog(modelId) THEN catalogFind(modelId) ELSE MODEL_CATALOG[1]
      base ==
        [ models |-> JObj([ providers |-> JObj([ anthropic |-> JObj(
            [ api |-> JStr(<<"anthropic-messages">>),
              baseUrl |-> JStr(<<"https://direct.evolink.ai">>),
              apiKey |-> JStr(apiKey),
              models |-> JArr(<< JObj(
                [ id |-> JStr(model.id),
                  name |-> JStr(model.name),
                  reasoning |-> JBool(FALSE),
                  input |-> JArr(<<JStr(<<"text">>)>>),
                  cost |-> JObj([ input |-> JNum(0), output |-> JNum(0),
                                  cacheRead |-> JNum(0), cacheWrite |-> JNum(0) ]),
                  contextWindow |-> JNum(200000),
                  maxTokens |-> JNum(8192) ]) >>) ]) ]) ]),
          agents |-> JObj([ defaults |-> JObj([ model |-> JObj(
            [ primary |-> JStr(<<"anthropic", "/">> \o model.id) ]) ]) ]),
          gateway |-> JObj([ port |-> JNum(port) ]) ]
  IN IF channel = TELEGRAM
     THEN Put(JObj(base), "channels", JObj([ telegram |-> JObj(
            [ enabled |-> JBool(TRUE),
              botToken |-> JStr(channelCreds.botToken),
              dmPolicy |-> JStr(<<"pairing">>),
              groups |-> JObj(("*" :> JObj([ requireMention |-> JBool(TRUE) ]))) ]) ]))
     ELSE IF channel = FEISHU
     THEN Put(JObj(base), "channels", JObj([ feishu |-> JObj(
            [ enabled |-> JBool(TRUE),
              dmPolicy |-> JStr(<<"pairing">>),
              groupPolicy |-> JStr(<<"open">>),
              requireMention |-> JBool(TRUE),
              accounts |-> JObj([ main |-> JObj(
                [ appId |-> JStr(channelCreds.appId),
                  appSecret |-> JStr(channelCreds.appSecret) ]) ]) ]) ]))
     ELSE JObj(base)

(***************************************************************************)
(* State                                                                   *)
(***************************************************************************)
VARIABLES
  serverMode,   \* opts.serverMode
  token,        \* opts.token
  now,          \* Date.now(), in ms
  ticks,        \* clock advances so far
  sweepAt,      \* the time from which cleanupTimer's next run is due
  ticketStore,  \* the Map ticketStore: id -> [data, expiresAt]
  issued,       \* ticket ids drawn so far (randomUUID never repeats)
  failures,     \* the login-failure counters: ip -> [count, resetAt]
  fs,           \* the home directory
  pipes,        \* the runSetupStream invocations, by the ticket that began them
  cmds,         \* the openclaw commands the last request ran: <<profile, verb>>
  last,         \* the last HTTP response
  redeemed,     \* history: per ticket id, the stream requests that passed the ticket check
  ghostStore,   \* history: the ticket store of the same run without its sweeps
  host0         \* history: the home directory at start

vars == << serverMode, token, now, ticks, sweepAt, ticketStore, issued, failures,
           fs, pipes, cmds, last, redeemed, ghostStore, host0 >>

TICKET_TTL == 60000
SWEEP_INTERVAL == 60000

\* f without x
Remove(f, x) == [y \in (DOMAIN f) \ {x} |-> f[y]]

\* f with x mapped to v
Set(f, x, v) == [y \in (DOMAIN f) \cup {x} |-> IF y = x THEN v ELSE f[y]]

Response(route, ticket, status, body) ==
  [route |-> route, ticket |-> ticket, status |-> status, body |-> body]

Err(msg) == <<"error", msg>>
Ok == <<"ok">>

(***************************************************************************)
(* lib/auth.js (not part of the sources at hand)                           *)
(***************************************************************************)
MAX_ATTEMPTS == 5
RATE_WINDOW == 900000

signSession(tok) == <<"hmac">> \o tok
verifySession(cookie, tok) == cookie = signSession(tok)

windowOpen(fl, ip, t) == ip \in DOMAIN fl /\ t < fl[ip].resetAt

checkRateLimit(fl, ip, t) ==
  IF windowOpen(fl, ip, t) THEN fl[ip].count < MAX_ATTEMPTS ELSE TRUE

recordFailure(fl, ip, t) ==
  IF windowOpen(fl, ip, t)
  THEN Set(fl, ip, [count |-> fl[ip].count + 1, resetAt |-> fl[ip].resetAt])
  ELSE Set(fl, ip, [count |-> 1, resetAt |-> t + RATE_WINDOW])

clearFailure(fl, ip) == Remove(fl, ip)

(***************************************************************************)
(* lib/server.js: cookies and the session gate                             *)
(***************************************************************************)
\* headers.cookie is a sequence of pairs [name, value]; a pair without "=" has
\* name NoEq.  parseCookie returns the value of the first pair named `name`.
NoEq == <<"noeq">>

RECURSIVE parseCookie(_, _)
parseCookie(raw, name) ==
  IF Len(raw) = 0 THEN Empty
  ELSE IF raw[1].name # NoEq /\ raw[1].name = name THEN raw[1].value
  ELSE parseCookie(Tail(raw), name)

SESSION == <<"session">>

\* a check that takes any non-empty session cookie
hasSessionUnverified(hdr) == Len(parseCookie(hdr, SESSION)) > 0

hasSession(hdr) ==
  LET sessionCookie == parseCookie(hdr, SESSION)
  IN Len(sessionCookie) > 0 /\ verifySession(sessionCookie, token)

\* a gate that lets every GET through
passesAuthAnyGet(method, path, hdr) ==
  IF serverMode THEN IF method = "GET" THEN TRUE ELSE hasSession(hdr) ELSE TRUE

\* the auth middleware lets the request through to its route
passesAuth(method, path, hdr) ==
  IF serverMode
  THEN IF path = "/" /\ method = "GET" THEN TRUE ELSE hasSession(hdr)
  ELSE TRUE

Unauthorized(route) == Response(route, 0, 401, Err("Unauthorized"))

(***************************************************************************)
(* lib/server.js: the ticket store                                         *)
(***************************************************************************)
\* a check that forgets the expiry time
ticketValidUnexpiring(store, id, t) == id \in DOMAIN store

\* the check of both stream endpoints: the ticket is known and not expired
ticketValid(store, id, t) == id \in DOMAIN store /\ ~(store[id].expiresAt < t)

\* a sweep that takes a ticket at its expiry time, while it is still accepted
sweepRemovesEarly(store, t) == { id \in DOMAIN store : store[id].expiresAt <= t }

\* the tickets one run of cleanupTimer removes
sweepRemoves(store, t) == { id \in DOMAIN store : store[id].expiresAt < t }

\* ticketStore.set(randomUUID(), {data, expiresAt})
ticketPut(store, id, data, t) ==
  Set(store, id, [data |-> data, expiresAt |-> t + TICKET_TTL])

\* a redemption that leaves the ticket in the store
ticketRedeemKeeps(store, id) == store

\* what a redeeming stream request leaves of the store
ticketRedeem(store, id) == Remove(store, id)

(***************************************************************************)
(* lib/configure.js: runSetupStream, with the response stream of the       *)
(* /setup-stream request that called it                                    *)
(***************************************************************************)
NULL_CODE == -1     \* close(code = null): the child was ended by a signal
SPAWN_ERRNO == -2   \* close(code = -errno): the child could not be spawned
MAX_ONBOARD == 80
TICK_STEP == 3

\* a text that reports every failure as exit code 1
codeTextOne(code) == "1"

\* String(code) of an exit code
codeText(code) ==
  CASE code = NULL_CODE -> "null"
    [] code = SPAWN_ERRNO -> "-2"
    [] code = 1 -> "1"
    [] OTHER -> "0"

Ev(pct, msg, kind, port) == [percent |-> pct, message |-> msg, kind |-> kind, port |-> port]

\* sendProgress: res.write of a progress event
onProgress(pipe, pct, msg) ==
  IF pipe.ended
  THEN [pipe EXCEPT !.lateWrite = TRUE]
  ELSE [pipe EXCEPT !.out = Append(@, Ev(pct, msg, "progress", 0))]

\* a rejection that never reaches the .catch of the request
rejectUnhandled(pipe, msg) ==
  IF pipe.promise # "pending" THEN pipe ELSE [pipe EXCEPT !.promise = "rejected"]

\* a rejection that reports every call, settled or not
rejectEveryCall(pipe, msg) ==
  [pipe EXCEPT !.promise = "rejected",
               !.out = Append(@, Ev(-1, msg, "error", 0)),
               !.ended = TRUE]

\* reject(err), and the .catch callback of the request when this settles the promise
reject(pipe, msg) ==
  IF pipe.promise # "pending" THEN pipe
  ELSE [pipe EXCEPT !.promise = "rejected",
                    !.out = Append(@, Ev(-1, msg, "error", 0)),
                    !.ended = TRUE]

\* resolve({configPath, port}), and the .then callback of the request
resolve(pipe) ==
  IF pipe.promise # "pending" THEN pipe
  ELSE [pipe EXCEPT !.promise = "resolved",
                    !.out = Append(@, Ev(100, <<"Done">>, "done", pipe.port)),
                    !.ended = TRUE]

NewPipe(profile, modelId, channel, port, generated) ==
  [ profile |-> profile, modelId |-> modelId, channel |-> channel, port |-> port, generated |-> generated,
    child |-> "none", code |-> 0, errorSeen |-> FALSE, killed |-> FALSE,
    pct |-> 0, chunks |-> 0,
    promise |-> "pending", out |-> <<>>, ended |-> FALSE, lateWrite |-> FALSE,
    reqOpen |-> TRUE,
    reconciled |-> FALSE, installTried |-> FALSE, startTried |-> FALSE,
    abortedRunning |-> FALSE, args |-> <<>> ]

\* an executor that gives up when the existing configuration cannot be parsed
setupExecutorStrict(dirs, port, profile, apiKey, modelId, channel, channelCreds, io, spawnOK) ==
  LET dir == profileDir(profile)
      generated == generateConfig(apiKey, modelId, channel, channelCreds, port)
      p5 == onProgress(NewPipe(profile, modelId, channel, port, generated),
                       5, <<"Creating profile directory...">>)
      made == IF existsDir(dirs, dir) THEN dirs ELSE Set(dirs, dir, NoFile)
      config == IF Parses(made, profile) THEN made[dir] ELSE EmptyObj
      p15 == onProgress(onProgress(p5, 10, <<"Writing configuration...">>),
                        15, <<"Running onboarding...">>)
  IN IF existsCfg(made, profile) /\ ~Parses(made, profile)
     THEN [fs |-> made, pipe |-> reject(p5, <<"Unexpected token">>)]
     ELSE [fs |-> Set(made, dir, deepMerge(config, generated)),
           pipe |-> [p15 EXCEPT !.child = IF spawnOK THEN "running" ELSE "spawnfailed",
                                !.code = IF spawnOK THEN 0 ELSE SPAWN_ERRNO,
                                !.pct = 15,
                                !.args = onboardArgs(profile, port)]]

\* The promise executor of runSetupStream from the port it was allocated to
\* the spawn.  io names the step that throws ("mkdir", "write") or "ok";
\* spawnOK is whether the openclaw binary can be spawned.
setupExecutor(dirs, port, profile, apiKey, modelId, channel, channelCreds, io, spawnOK) ==
  LET dir == profileDir(profile)
      generated == generateConfig(apiKey, modelId, channel, channelCreds, port)
      p5 == onProgress(NewPipe(profile, modelId, channel, port, generated),
                       5, <<"Creating profile directory...">>)
      made == IF existsDir(dirs, dir) THEN dirs ELSE Set(dirs, dir, NoFile)
      unreadable == existsCfg(made, profile) /\ ~Parses(made, profile)
      config == IF Parses(made, profile) THEN made[dir] ELSE EmptyObj
      p5w == IF unreadable
             THEN onProgress(p5, 5, <<"Warning: existing config unreadable, starting fresh">>)
             ELSE p5
      p10 == onProgress(p5w, 10, <<"Writing configuration...">>)
      merged == deepMerge(config, generated)
      p15 == onProgress(p10, 15, <<"Running onboarding...">>)
  IN IF ~existsDir(dirs, dir) /\ io = "mkdir"
     THEN [fs |-> dirs, pipe |-> reject(p5, <<"mkdir failed">>)]
     ELSE IF io = "write"
     THEN [fs |-> made, pipe |-> reject(p10, <<"write failed">>)]
     ELSE [fs |-> Set(made, dir, merged),
           pipe |-> [p15 EXCEPT !.child = IF spawnOK THEN "running" ELSE "spawnfailed",
                                !.code = IF spawnOK THEN 0 ELSE SPAWN_ERRNO,
                                !.pct = 15,
                                !.args = onboardArgs(profile, port)]]

\* a setup that lets an existing profile keep the port it already has
runSetupStreamKeepPort(dirs, profile, apiKey, modelId, channel, channelCreds, io, spawnOK) ==
  setupExecutor(dirs,
                IF profile \in listProfiles(dirs) /\ readPort(dirs, profile)[1] = "num"
                THEN readPort(dirs, profile)[2] ELSE nextAvailablePort(dirs),
                profile, apiKey, modelId, channel, channelCreds, io, spawnOK)

\* runSetupStream: within one process the executor runs from the allocation
\* to the spawn without yielding
runSetupStream(dirs, profile, apiKey, modelId, channel, channelCreds, io, spawnOK) ==
  setupExecutor(dirs, nextAvailablePort(dirs), profile, apiKey, modelId, channel,
                channelCreds, io, spawnOK)

\* a tick that adds its step whenever the percent is under the ceiling
RECURSIVE tickPastCeiling(_, _)
tickPastCeiling(pipe, n) ==
  IF n = 0 THEN pipe
  ELSE IF pipe.pct < MAX_ONBOARD
       THEN LET pct == pipe.pct + TICK_STEP
            IN tickPastCeiling(onProgress([pipe EXCEPT !.pct = pct], pct, <<"line">>), n - 1)
       ELSE tickPastCeiling(pipe, n - 1)

\* tick(line), for the n non-empty lines of one chunk of output
RECURSIVE tick(_, _)
tick(pipe, n) ==
  IF n = 0 THEN pipe
  ELSE IF pipe.pct < MAX_ONBOARD
       THEN LET pct == IF pipe.pct + TICK_STEP < MAX_ONBOARD
                       THEN pipe.pct + TICK_STEP ELSE MAX_ONBOARD
            IN tick(onProgress([pipe EXCEPT !.pct = pct], pct, <<"line">>), n - 1)
       ELSE tick(pipe, n - 1)

\* abort(): if (child && !child.killed) child.kill().  The signal ends a
\* running child; a child that has exited or was never spawned has no handle
\* and kill() does nothing.
abort(pipe) ==
  IF pipe.child = "running" /\ ~pipe.killed
  THEN [pipe EXCEPT !.killed = TRUE, !.child = "exited", !.code = NULL_CODE,
                    !.abortedRunning = TRUE]
  ELSE pipe

PluginEntry(channel) == IF channel = TELEGRAM THEN "telegram" ELSE "feishu"

\* a repair that only makes sure plugins.entries is there
fixPluginsEntriesOnly(final, channel) ==
  LET withPlugins == IF Truthy(Get(final, "plugins")) THEN final
                     ELSE Put(final, "plugins", EmptyObj)
      plugins == Get(withPlugins, "plugins")
  IN IF Truthy(Get(plugins, "entries")) THEN withPlugins
     ELSE Put(withPlugins, "plugins", Put(plugins, "entries", EmptyObj))

\* final.plugins.entries.<channel> = {enabled: true}, for the two known channels
fixPlugins(final, channel) ==
  LET withPlugins == IF Truthy(Get(final, "plugins")) THEN final
                     ELSE Put(final, "plugins", EmptyObj)
      plugins == Get(withPlugins, "plugins")
      withEntries == IF Truthy(Get(plugins, "entries")) THEN plugins
                     ELSE Put(plugins, "entries", EmptyObj)
      entries == Get(withEntries, "entries")
  IN IF channel \in {TELEGRAM, FEISHU}
     THEN Put(withPlugins, "plugins",
              Put(withEntries, "entries",
                  Put(entries, PluginEntry(channel), JObj([enabled |-> JBool(TRUE)]))))
     ELSE Put(withPlugins, "plugins", withEntries)

\* a test that takes only a truthy code for a failure
exitFailedTruthy(code) == code \notin {0, NULL_CODE}

\* code !== 0
exitFailed(code) == code # 0

\* a start that is attempted whatever the install did
serviceInstalledAlways(installOK) == TRUE

\* var serviceInstalled: set only when "gateway install" did not throw
serviceInstalled(installOK) == installOK

\* a close handler that removes the profile directory when the onboarding failed
closeHandlerRollback(dirs, pipe, installOK, startOK) ==
  LET closed == [pipe EXCEPT !.child = "closed"]
      dir == profileDir(pipe.profile)
  IN IF exitFailed(pipe.code)
     THEN [fs |-> Remove(dirs, dir),
           pipe |-> reject(onProgress(closed, pipe.pct, <<"Onboarding failed">>),
                           <<"Onboarding failed (exit ", codeText(pipe.code), ")">>)]
     ELSE
       LET p85 == onProgress(closed, 85, <<"Applying final configuration...">>)
           canApply == Parses(dirs, pipe.profile)
           final == fixPlugins(deepMerge(dirs[dir], pipe.generated), pipe.channel)
           fs2 == IF canApply THEN Set(dirs, dir, final) ELSE dirs
           p85w == IF canApply THEN [p85 EXCEPT !.reconciled = TRUE]
                   ELSE onProgress(p85, 85, <<"Warning: failed to apply final config">>)
           p88 == [onProgress(p85w, 88, <<"Installing gateway service...">>)
                     EXCEPT !.installTried = TRUE]
           p88w == IF installOK THEN p88
                   ELSE onProgress(p88, 88, <<"Warning: gateway service install failed">>)
           p92 == IF serviceInstalled(installOK)
                  THEN [onProgress(p88w, 92, <<"Starting gateway...">>)
                          EXCEPT !.startTried = TRUE]
                  ELSE p88w
           p92w == IF serviceInstalled(installOK) /\ ~startOK
                   THEN onProgress(p92, 92, <<"Warning: gateway start failed">>)
                   ELSE p92
       IN [fs |-> fs2, pipe |-> resolve(onProgress(p92w, 100, <<"Done">>))]

\* child.on("close")
closeHandler(dirs, pipe, installOK, startOK) ==
  LET closed == [pipe EXCEPT !.child = "closed"]
      dir == profileDir(pipe.profile)
  IN IF exitFailed(pipe.code)
     THEN [fs |-> dirs,
           pipe |-> reject(onProgress(closed, pipe.pct, <<"Onboarding failed">>),
                           <<"Onboarding failed (exit ", codeText(pipe.code), ")">>)]
     ELSE
       LET p85 == onProgress(closed, 85, <<"Applying final configuration...">>)
           canApply == Parses(dirs, pipe.profile)
           final == fixPlugins(deepMerge(dirs[dir], pipe.generated), pipe.channel)
           fs2 == IF canApply THEN Set(dirs, dir, final) ELSE dirs
           p85w == IF canApply THEN [p85 EXCEPT !.reconciled = TRUE]
                   ELSE onProgress(p85, 85, <<"Warning: failed to apply final config">>)
           p88 == [onProgress(p85w, 88, <<"Installing gateway service...">>)
                     EXCEPT !.installTried = TRUE]
           p88w == IF installOK THEN p88
                   ELSE onProgress(p88, 88, <<"Warning: gateway service install failed">>)
           p92 == IF serviceInstalled(installOK)
                  THEN [onProgress(p88w, 92, <<"Starting gateway...">>)
                          EXCEPT !.startTried = TRUE]
                  ELSE p88w
           p92w == IF serviceInstalled(installOK) /\ ~startOK
                   THEN onProgress(p92, 92, <<"Warning: gateway start failed">>)
                   ELSE p92
       IN [fs |-> fs2, pipe |-> resolve(onProgress(p92w, 100, <<"Done">>))]

(***************************************************************************)
(* lib/configure.js: the synchronous operations                            *)
(***************************************************************************)
ALLOWLIST == <<"allowlist">>

\* String(v) of a parsed JSON value, as Array.prototype.map(String) applies it
RECURSIVE String(_)
String(v) ==
  CASE v[1] = "str" -> v
    [] v[1] = "num" -> JStr(IF v[2] < 0 THEN <<"-">> \o NumString(0 - v[2]) ELSE NumString(v[2]))
    [] v[1] = "bool" -> JStr(IF v[2] THEN <<"t", "r", "u", "e">> ELSE <<"f", "a", "l", "s", "e">>)
    [] v[1] = "null" -> JStr(<<"n", "u", "l", "l">>)
    [] v[1] = "arr" ->
         LET RECURSIVE join(_)
             join(i) == IF i > Len(v[2]) THEN <<>>
                        ELSE (IF i > 1 THEN <<",">> ELSE <<>>)
                             \o (IF v[2][i][1] = "null" THEN <<>> ELSE String(v[2][i])[2])
                             \o join(i + 1)
         IN JStr(join(1))
    [] OTHER -> JStr(<<"[object Object]">>)

\* a connect that pushes the user id without looking for it in the list
connectTelegramUserPushing(dirs, profile, telegramId, restartOK) ==
  IF \/ ~Parses(dirs, profile)
     \/ LET tg0 == Get(Get(dirs[profileDir(profile)], "channels"), "telegram")
        IN Truthy(Get(tg0, "allowFrom")) /\ ~IsArr(Get(tg0, "allowFrom"))
  THEN [ok |-> FALSE, fs |-> dirs, cmds |-> {}, error |-> <<"Config not found.">>, out |-> <<>>]
  ELSE
  LET config == dirs[profileDir(profile)]
      tg == Put((IF Truthy(Get(Get(config, "channels"), "telegram")) THEN Get(Get(config, "channels"), "telegram") ELSE EmptyObj), "dmPolicy", JStr(ALLOWLIST))
      existing == IF Truthy(Get(tg, "allowFrom")) THEN Get(tg, "allowFrom")[2] ELSE <<>>
      added == Append([i \in 1..Len(existing) |-> String(existing[i])], JStr(telegramId))
      saved == Put(config, "channels",
                   Put(IF Truthy(Get(config, "channels")) THEN Get(config, "channels") ELSE EmptyObj,
                       "telegram", Put(tg, "allowFrom", JArr(added))))
  IN [ok |-> TRUE, fs |-> Set(dirs, profileDir(profile), saved),
      cmds |-> {<<profile, "restart">>}, error |-> <<>>,
      out |-> << Ev(20, <<"Reading configuration...">>, "progress", 0),
                 Ev(50, <<"Saving configuration...">>, "progress", 0),
                 Ev(70, <<"Restarting gateway...">>, "progress", 0),
                 Ev(100, <<"Connected">>, "progress", 0) >>]

\* a connect without the existsSync check: it writes a document that holds
\* only the allow list when the profile has none
connectTelegramUserCreating(dirs, profile, telegramId, restartOK) ==
  LET tg == JObj([dmPolicy |-> JStr(ALLOWLIST), allowFrom |-> JArr(<<JStr(telegramId)>>)])
      saved == JObj([channels |-> JObj([telegram |-> tg])])
  IN [ok |-> TRUE, fs |-> Set(dirs, profileDir(profile), saved),
      cmds |-> {<<profile, "restart">>}, error |-> <<>>,
      out |-> << Ev(20, <<"Reading configuration...">>, "progress", 0),
                 Ev(50, <<"Saving configuration...">>, "progress", 0),
                 Ev(70, <<"Restarting gateway...">>, "progress", 0),
                 Ev(100, <<"Connected">>, "progress", 0) >>]

\* connectTelegramUser: ok is FALSE when it throws
connectTelegramUser(dirs, profile, telegramId, restartOK) ==
  IF ~existsCfg(dirs, profile)
  THEN [ok |-> FALSE, fs |-> dirs, cmds |-> {}, error |-> <<"Config not found.">>,
        out |-> <<>>]
  ELSE IF ~Parses(dirs, profile)
  THEN [ok |-> FALSE, fs |-> dirs, cmds |-> {}, error |-> <<"Unexpected token">>,
        out |-> <<Ev(20, <<"Reading configuration...">>, "progress", 0)>>]
  ELSE
    LET config == dirs[profileDir(profile)]
        c1 == IF Truthy(Get(config, "channels")) THEN config
              ELSE Put(config, "channels", EmptyObj)
        ch == IF Truthy(Get(Get(c1, "channels"), "telegram")) THEN Get(c1, "channels")
              ELSE Put(Get(c1, "channels"), "telegram", EmptyObj)
        tg == Put(Get(ch, "telegram"), "dmPolicy", JStr(ALLOWLIST))
        allowFrom == IF Truthy(Get(tg, "allowFrom")) THEN Get(tg, "allowFrom") ELSE JArr(<<>>)
        existing == [i \in 1..Len(allowFrom[2]) |-> String(allowFrom[2][i])]
        added == IF \E i \in 1..Len(existing) : existing[i] = JStr(telegramId)
                 THEN existing ELSE Append(existing, JStr(telegramId))
        saved == Put(c1, "channels", Put(ch, "telegram", Put(tg, "allowFrom", JArr(added))))
        progress == << Ev(20, <<"Reading configuration...">>, "progress", 0),
                       Ev(50, <<"Saving configuration...">>, "progress", 0),
                       Ev(70, <<"Restarting gateway...">>, "progress", 0) >>
    IN IF ~IsArr(allowFrom)
       THEN [ok |-> FALSE, fs |-> dirs, cmds |-> {}, error |-> <<"map is not a function">>,
             out |-> <<Ev(20, <<"Reading configuration...">>, "progress", 0)>>]
       ELSE
       [ok |-> TRUE, fs |-> Set(dirs, profileDir(profile), saved),
        cmds |-> {<<profile, "restart">>}, error |-> <<>>,
        out |-> (IF restartOK THEN progress
                 ELSE Append(progress,
                        Ev(70, <<"Warning: gateway restart failed">>, "progress", 0)))
                \o <<Ev(100, <<"Connected">>, "progress", 0)>>]

\* the gateway commands startGateway and restartGateway run, in order
startGatewayCalls(profile) == << <<profile, "install">>, <<profile, "start">> >>
restartGatewayCalls(profile) == << <<profile, "install">>, <<profile, "restart">> >>

\* a start that gives up when the install fails
startGatewayStrict(profile, installOK, startOK) ==
  [ok |-> installOK /\ startOK,
   cmds |-> IF installOK THEN {<<profile, "install">>, <<profile, "start">>}
            ELSE {<<profile, "install">>}]

\* startGateway: install is tried and its failure ignored; ok iff start succeeds
startGateway(profile, installOK, startOK) ==
  [ok |-> startOK,
   cmds |-> { startGatewayCalls(profile)[i] : i \in 1..Len(startGatewayCalls(profile)) }]

stopGateway(profile, stopOK) ==
  [ok |-> stopOK, cmds |-> {<<profile, "stop">>}]

restartGateway(profile, installOK, restartOK) ==
  [ok |-> restartOK,
   cmds |-> { restartGatewayCalls(profile)[i] : i \in 1..Len(restartGatewayCalls(profile)) }]

\* a deletion that gives up when the gateway cannot be stopped
deleteProfileStopFirst(dirs, profile, stopOK, uninstallOK, rmOK) ==
  LET dir == profileDir(profile)
      tried == {<<profile, "stop">>, <<profile, "uninstall">>}
  IN IF ~stopGateway(profile, stopOK).ok
     THEN [ok |-> FALSE, fs |-> dirs, cmds |-> {<<profile, "stop">>}]
     ELSE IF existsDir(dirs, dir) /\ rmOK
     THEN [ok |-> TRUE, fs |-> Remove(dirs, dir), cmds |-> tried]
     ELSE [ok |-> ~existsDir(dirs, dir), fs |-> dirs, cmds |-> tried]

\* deleteProfile: stop and uninstall are tried and what they throw (stopOK,
\* uninstallOK FALSE) is caught; ok is FALSE when rmSync throws
deleteProfile(dirs, profile, stopOK, uninstallOK, rmOK) ==
  LET dir == profileDir(profile)
      tried == stopGateway(profile, stopOK).cmds \cup {<<profile, "uninstall">>}
  IN IF existsDir(dirs, dir)
     THEN IF rmOK THEN [ok |-> TRUE, fs |-> Remove(dirs, dir), cmds |-> tried]
          ELSE [ok |-> FALSE, fs |-> dirs, cmds |-> tried]
     ELSE [ok |-> TRUE, fs |-> dirs, cmds |-> tried]

\* changeModel: error is "" when it returns
changeModel(dirs, profile, modelId, restartOK) ==
  IF ~InCatalog(modelId)
  THEN [error |-> "Unknown model", fs |-> dirs, cmds |-> {}]
  ELSE IF ~existsCfg(dirs, profile)
  THEN [error |-> "Config not found for profile", fs |-> dirs, cmds |-> {}]
  ELSE IF ~Parses(dirs, profile)
  THEN [error |-> "Unexpected token", fs |-> dirs, cmds |-> {}]
  ELSE
    LET model == catalogFind(modelId)
        config == dirs[profileDir(profile)]
        providers == Get(Get(config, "models"), "providers")
        anthropic == Get(providers, "anthropic")
        list == Get(anthropic, "models")
        c1 == IF /\ Truthy(Get(config, "models")) /\ Truthy(providers)
                 /\ Truthy(anthropic) /\ IsArr(list) /\ Len(list[2]) > 0
              THEN Put(config, "models", Put(Get(config, "models"), "providers",
                     Put(providers, "anthropic", Put(anthropic, "models",
                       JArr([list[2] EXCEPT ![1] =
                               Put(Put(@, "id", JStr(model.id)),
                                   "name", JStr(model.name))])))))
              ELSE config
        agents == IF Truthy(Get(c1, "agents")) THEN Get(c1, "agents") ELSE EmptyObj
        defaults == IF Truthy(Get(agents, "defaults")) THEN Get(agents, "defaults")
                    ELSE EmptyObj
        mdl == IF Truthy(Get(defaults, "model")) THEN Get(defaults, "model") ELSE EmptyObj
        c2 == Put(c1, "agents", Put(agents, "defaults", Put(defaults, "model",
                Put(mdl, "primary", JStr(<<"anthropic", "/">> \o model.id)))))
        r == restartGateway(profile, TRUE, restartOK)
    IN [error |-> IF r.ok THEN "" ELSE "Command failed",
        fs |-> Set(dirs, profileDir(profile), c2), cmds |-> r.cmds]

\* the index of the first "/" of a string, or 0
RECURSIVE indexOfSlash(_, _)
indexOfSlash(s, i) ==
  IF i > Len(s) THEN 0 ELSE IF s[i] = "/" THEN i ELSE indexOfSlash(s, i + 1)

\* the strings of the model that spell a port number
PortStrings == { <<"28789">> }

\* createConnection({port}) accepts the value: a whole number from 0 to
\* 65535, or a string that spells one; for any other value it throws
legalPort(v) ==
  CASE v[1] = "num" -> v[2] \in 0..65535
    [] v[1] = "str" -> v[2] \in PortStrings
    [] OTHER -> FALSE

\* a promise rejected by what createConnection threw in checkPort
Rejected == [error |-> "ERR_SOCKET_BAD_PORT"]

\* getProfileInfo, given the outcome of the TCP probe; Rejected when checkPort
\* throws, which happens outside the try block
getProfileInfo(dirs, profile, running) ==
  LET cfg == dirs[profileDir(profile)]
      mdl == Get(Get(Get(cfg, "agents"), "defaults"), "model")
      hasPrimary == /\ Parses(dirs, profile) /\ Truthy(Get(cfg, "agents"))
                    /\ Truthy(Get(Get(cfg, "agents"), "defaults"))
                    /\ Truthy(mdl) /\ Truthy(Get(mdl, "primary"))
      primary == Get(mdl, "primary")[2]
      slash == indexOfSlash(primary, 1)
      modelId == IF hasPrimary
                 THEN IF slash > 0 THEN SubSeq(primary, slash + 1, Len(primary))
                      ELSE primary
                 ELSE Empty
      model == IF hasPrimary /\ InCatalog(modelId) THEN catalogFind(modelId).name
               ELSE modelId
      channels == Get(cfg, "channels")
      channel == IF Parses(dirs, profile) /\ Truthy(channels)
                 THEN IF Truthy(Get(channels, "telegram"))
                         /\ Truthy(Get(Get(channels, "telegram"), "enabled"))
                      THEN <<"Telegram">>
                      ELSE IF Truthy(Get(channels, "feishu"))
                              /\ Truthy(Get(Get(channels, "feishu"), "enabled"))
                      THEN <<"Feishu">>
                      ELSE IF IsObj(channels) /\ DOMAIN channels[2] # {}
                      THEN <<CHOOSE k \in DOMAIN channels[2] : TRUE>>
                      ELSE Empty
                 ELSE Empty
  IN IF ~legalPort(readPort(dirs, profile)) THEN Rejected
     ELSE [profile |-> profile, port |-> readPort(dirs, profile),
           gateway |-> IF running THEN "running" ELSE "stopped",
           model |-> model, modelId |-> modelId, channel |-> channel]

\* getAllProfiles, given the profiles whose port answers the probe;
\* Promise.all rejects when one getProfileInfo does
getAllProfiles(dirs, up) ==
  IF \E p \in listProfiles(dirs) : ~legalPort(readPort(dirs, p))
  THEN Rejected
  ELSE { getProfileInfo(dirs, p, p \in up) : p \in listProfiles(dirs) }

(***************************************************************************)
(* lib/server.js: the routes.  hdr is the request's Cookie header; the     *)
(* other parameters are the request's fields and the outcomes of the       *)
(* environment (file system errors, exit status of openclaw commands).     *)
(***************************************************************************)
confVars == << serverMode, token >>
clockVars == << now, ticks, sweepAt >>
ticketVars == << ticketStore, issued, redeemed, ghostStore >>
authVars == << failures >>
hostVars == << fs, pipes, cmds, host0 >>

\* a response that leaves everything else as it is
Responds(resp) ==
  /\ last' = resp
  /\ cmds' = {}
  /\ UNCHANGED << confVars, clockVars, ticketVars, authVars, fs, pipes, host0 >>

InFlight(pipe) == pipe.child \in {"allocated", "running", "exited", "spawnfailed"}
AnyInFlight == \E id \in DOMAIN pipes : InFlight(pipes[id])

\* a handler that compares the token before it asks the rate limiter
loginStatusTokenFirst(allowed, bodyToken, tok) ==
  IF bodyToken = tok THEN 200 ELSE IF ~allowed THEN 429 ELSE 401

\* what the login handler answers: 429, 401 or 200
loginStatus(allowed, bodyToken, tok) ==
  IF ~allowed THEN 429 ELSE IF bodyToken # tok THEN 401 ELSE 200

\* POST /auth/login (server mode); bodyToken is Undefined when the body has none
Login(ip, bodyToken) ==
  /\ serverMode
  /\ LET status == loginStatus(checkRateLimit(failures, ip, now), bodyToken, token)
     IN /\ failures' = IF status = 401 THEN recordFailure(failures, ip, now)
                       ELSE IF status = 200 THEN clearFailure(failures, ip)
                       ELSE failures
        /\ last' = Response("/auth/login", 0, status,
                     IF status = 429 THEN Err("Too many attempts. Try again later.")
                     ELSE IF status = 401 THEN Err("Invalid token")
                     ELSE <<"set-cookie", signSession(token)>>)
  /\ cmds' = {}
  /\ UNCHANGED << confVars, clockVars, ticketVars, fs, pipes, host0 >>

\* what a route answers when its async handler rejects: nothing is sent by
\* the handler; the status is 500 where the framework catches the rejection
\* and 0 (no answer) where it does not
Unanswered(route, status) == Response(route, 0, status, Err(Rejected.error))

\* GET /
GetRoot(hdr, up) ==
  IF serverMode /\ ~hasSession(hdr)
  THEN Responds(Response("/", 0, 200, <<"page">>))
  ELSE IF \E p \in listProfiles(fs) : ~legalPort(readPort(fs, p))
  THEN \E status \in {0, 500} : Responds(Unanswered("/", status))
  ELSE Responds(Response("/", 0, 200, <<"page", getAllProfiles(fs, up)>>))

\* GET /profiles
GetProfiles(hdr, up) ==
  IF ~passesAuth("GET", "/profiles", hdr) THEN Responds(Unauthorized("/profiles"))
  ELSE IF \E p \in listProfiles(fs) : ~legalPort(readPort(fs, p))
  THEN \E status \in {0, 500} : Responds(Unanswered("/profiles", status))
  ELSE Responds(Response("/profiles", 0, 200, <<"profiles", getAllProfiles(fs, up)>>))

\* POST /setup/prepare
SetupPrepare(hdr, body, limit) ==
  /\ issued < limit
  /\ IF ~passesAuth("POST", "/setup/prepare", hdr)
     THEN Responds(Unauthorized("/setup/prepare"))
     ELSE IF Len(body.apiKey) = 0
     THEN Responds(Response("/setup/prepare", 0, 400, Err("API Key required")))
     ELSE /\ issued' = issued + 1
          /\ ticketStore' = ticketPut(ticketStore, issued + 1, body, now)
          /\ ghostStore' = ticketPut(ghostStore, issued + 1, body, now)
          /\ last' = Response("/setup/prepare", 0, 200, <<"ticket", issued + 1>>)
          /\ cmds' = {}
          /\ UNCHANGED << confVars, clockVars, redeemed, authVars, fs, pipes, host0 >>

\* POST /connect/prepare
ConnectPrepare(hdr, body, limit) ==
  /\ issued < limit
  /\ IF ~passesAuth("POST", "/connect/prepare", hdr)
     THEN Responds(Unauthorized("/connect/prepare"))
     ELSE /\ issued' = issued + 1
          /\ ticketStore' = ticketPut(ticketStore, issued + 1, body, now)
          /\ ghostStore' = ticketPut(ghostStore, issued + 1, body, now)
          /\ last' = Response("/connect/prepare", 0, 200, <<"ticket", issued + 1>>)
          /\ cmds' = {}
          /\ UNCHANGED << confVars, clockVars, redeemed, authVars, fs, pipes, host0 >>

redeemCount(id) == IF id \in DOMAIN redeemed THEN redeemed[id] ELSE 0

\* the same request in the run without sweeps
GhostRedeem(id) ==
  ghostStore' = IF ticketValid(ghostStore, id, now) THEN ticketRedeem(ghostStore, id)
                ELSE ghostStore

InvalidTicket(route, id) == Response(route, id, 400, Err("Invalid or expired ticket"))

\* GET /setup-stream?ticket=id, to the spawn of the onboarding subprocess
SetupStream(hdr, id, io, spawnOK) ==
  IF ~passesAuth("GET", "/setup-stream", hdr)
  THEN Responds(Unauthorized("/setup-stream"))
  ELSE IF ~ticketValid(ticketStore, id, now)
  THEN /\ last' = InvalidTicket("/setup-stream", id)
       /\ GhostRedeem(id)
       /\ cmds' = {}
       /\ UNCHANGED << confVars, clockVars, ticketStore, issued, redeemed,
                       authVars, fs, pipes, host0 >>
  ELSE
    LET data == ticketStore[id].data
        profile == trim(OrElse(data.profile, DEFAULT))
        apiKey == trim(data.apiKey)
        modelId == trim(OrElse(data.model, OPUS46))
        channel == trim(OrElse(data.channel, TELEGRAM))
        channelCreds == [botToken |-> trim(data.botToken), appId |-> trim(data.appId),
                         appSecret |-> trim(data.appSecret)]
        r == runSetupStream(fs, profile, apiKey, modelId, channel, channelCreds,
                            io, spawnOK)
    IN /\ ticketStore' = ticketRedeem(ticketStore, id)
       /\ redeemed' = Set(redeemed, id, redeemCount(id) + 1)
       /\ GhostRedeem(id)
       /\ cmds' = {}
       /\ UNCHANGED << confVars, clockVars, issued, authVars, host0 >>
       /\ IF Len(apiKey) = 0
          THEN /\ last' = Response("/setup-stream", id, 400, Err("API Key required"))
               /\ UNCHANGED << fs, pipes >>
          ELSE IF validateProfileName(profile) # "ok"
          THEN /\ last' = Response("/setup-stream", id, 400,
                                   Err(validateProfileName(profile)))
               /\ UNCHANGED << fs, pipes >>
          ELSE /\ last' = Response("/setup-stream", id, 200, <<"sse">>)
               /\ fs' = r.fs
               /\ pipes' = Set(pipes, id, r.pipe)

\* GET /connect-stream?ticket=id
ConnectStream(hdr, id, restartOK) ==
  IF ~passesAuth("GET", "/connect-stream", hdr)
  THEN Responds(Unauthorized("/connect-stream"))
  ELSE IF ~ticketValid(ticketStore, id, now)
  THEN /\ last' = InvalidTicket("/connect-stream", id)
       /\ GhostRedeem(id)
       /\ cmds' = {}
       /\ UNCHANGED << confVars, clockVars, ticketStore, issued, redeemed,
                       authVars, fs, pipes, host0 >>
  ELSE
    LET data == ticketStore[id].data
        profile == trim(OrElse(data.profile, DEFAULT))
        channel == trim(OrElse(data.channel, TELEGRAM))
        telegramId == trim(data.telegramId)
        r == connectTelegramUser(fs, profile, telegramId, restartOK)
    IN /\ ticketStore' = ticketRedeem(ticketStore, id)
       /\ redeemed' = Set(redeemed, id, redeemCount(id) + 1)
       /\ GhostRedeem(id)
       /\ UNCHANGED << confVars, clockVars, issued, authVars, pipes, host0 >>
       /\ IF channel = TELEGRAM /\ Len(telegramId) = 0
          THEN /\ last' = Response("/connect-stream", id, 400,
                                   Err("Telegram User ID required"))
               /\ cmds' = {}
               /\ UNCHANGED fs
          ELSE IF channel # TELEGRAM
          THEN /\ last' = Response("/connect-stream", id, 200,
                            <<"sse", <<Ev(100, <<"Connected">>, "done", 0)>> >>)
               /\ cmds' = {}
               /\ UNCHANGED fs
          ELSE /\ last' = Response("/connect-stream", id, 200,
                            <<"sse", IF r.ok
                                     THEN Append(r.out, Ev(100, <<"Connected">>, "done", 0))
                                     ELSE Append(r.out, Ev(-1, r.error, "error", 0)) >>)
               /\ fs' = r.fs
               /\ cmds' = r.cmds

\* POST /start-gateway
StartGateway(hdr, bodyProfile, installOK, startOK) ==
  IF ~passesAuth("POST", "/start-gateway", hdr)
  THEN Responds(Unauthorized("/start-gateway"))
  ELSE LET r == startGateway(trim(OrElse(bodyProfile, DEFAULT)), installOK, startOK)
       IN /\ cmds' = r.cmds
          /\ last' = IF r.ok THEN Response("/start-gateway", 0, 200, Ok)
                     ELSE Response("/start-gateway", 0, 500, Err("Failed to start gateway."))
          /\ UNCHANGED << confVars, clockVars, ticketVars, authVars, fs, pipes, host0 >>

\* POST /stop-gateway
StopGateway(hdr, bodyProfile, stopOK) ==
  IF ~passesAuth("POST", "/stop-gateway", hdr)
  THEN Responds(Unauthorized("/stop-gateway"))
  ELSE LET r == stopGateway(trim(OrElse(bodyProfile, DEFAULT)), stopOK)
       IN /\ cmds' = r.cmds
          /\ last' = IF r.ok THEN Response("/stop-gateway", 0, 200, Ok)
                     ELSE Response("/stop-gateway", 0, 500, Err("Failed to stop gateway."))
          /\ UNCHANGED << confVars, clockVars, ticketVars, authVars, fs, pipes, host0 >>

\* POST /restart-gateway
RestartGateway(hdr, bodyProfile, installOK, restartOK) ==
  IF ~passesAuth("POST", "/restart-gateway", hdr)
  THEN Responds(Unauthorized("/restart-gateway"))
  ELSE LET r == restartGateway(trim(OrElse(bodyProfile, DEFAULT)), installOK, restartOK)
       IN /\ cmds' = r.cmds
          /\ last' = IF r.ok THEN Response("/restart-gateway", 0, 200, Ok)
                     ELSE Response("/restart-gateway", 0, 500,
                                   Err("Failed to restart gateway."))
          /\ UNCHANGED << confVars, clockVars, ticketVars, authVars, fs, pipes, host0 >>

\* POST /delete-profile
DeleteProfile(hdr, bodyProfile, stopOK, uninstallOK, rmOK) ==
  IF ~passesAuth("POST", "/delete-profile", hdr)
  THEN Responds(Unauthorized("/delete-profile"))
  ELSE IF Len(trim(bodyProfile)) = 0
  THEN Responds(Response("/delete-profile", 0, 400, Err("Profile name required")))
  ELSE LET r == deleteProfile(fs, trim(bodyProfile), stopOK, uninstallOK, rmOK)
       IN /\ fs' = r.fs
          /\ cmds' = r.cmds
          /\ last' = IF r.ok THEN Response("/delete-profile", 0, 200, Ok)
                     ELSE Response("/delete-profile", 0, 500,
                                   Err("Failed to delete profile."))
          /\ UNCHANGED << confVars, clockVars, ticketVars, authVars, pipes, host0 >>

\* POST /change-model
ChangeModel(hdr, bodyProfile, bodyModelId, restartOK) ==
  IF ~passesAuth("POST", "/change-model", hdr)
  THEN Responds(Unauthorized("/change-model"))
  ELSE IF Len(trim(bodyProfile)) = 0
  THEN Responds(Response("/change-model", 0, 400, Err("Profile name required")))
  ELSE IF Len(trim(bodyModelId)) = 0
  THEN Responds(Response("/change-model", 0, 400, Err("Model ID required")))
  ELSE LET r == changeModel(fs, trim(bodyProfile), trim(bodyModelId), restartOK)
       IN /\ fs' = r.fs
          /\ cmds' = r.cmds
          /\ last' = IF r.error = "" THEN Response("/change-model", 0, 200, Ok)
                     ELSE Response("/change-model", 0, 500, Err(r.error))
          /\ UNCHANGED << confVars, clockVars, ticketVars, authVars, pipes, host0 >>

(***************************************************************************)
(* Timers, the client's end of a stream, and the onboarding subprocess     *)
(***************************************************************************)
pipeVars == << confVars, clockVars, ticketVars, authVars, cmds, last, host0 >>

\* the clock advances by d ms
Tick(d) ==
  /\ ticks < MaxTicks
  /\ ticks' = ticks + 1
  /\ now' = now + d
  /\ UNCHANGED << confVars, sweepAt, ticketVars, authVars, hostVars, last >>

\* cleanupTimer fires (no earlier than its interval after the last run)
Sweep ==
  /\ now >= sweepAt
  /\ sweepAt' = now + SWEEP_INTERVAL
  /\ ticketStore' = [id \in (DOMAIN ticketStore) \ sweepRemoves(ticketStore, now)
                       |-> ticketStore[id]]
  /\ UNCHANGED << confVars, now, ticks, issued, redeemed, ghostStore, authVars,
                  hostVars, last >>

\* req.on("close"): the client of the stream goes away.  (Once the response
\* has ended the event finds no running child, and abort() does nothing.)
ClientClose(id) ==
  /\ id \in DOMAIN pipes
  /\ pipes[id].reqOpen
  /\ ~pipes[id].ended
  /\ pipes' = [pipes EXCEPT ![id] = [abort(@) EXCEPT !.reqOpen = FALSE]]
  /\ UNCHANGED << pipeVars, fs >>

\* child.stdout / child.stderr "data": a chunk of n non-empty lines
ChildOutput(id, n) ==
  /\ id \in DOMAIN pipes
  /\ pipes[id].child \in {"running", "exited"}
  /\ pipes[id].chunks < MaxLines
  /\ pipes' = [pipes EXCEPT ![id] = tick([@ EXCEPT !.chunks = @ + 1], n)]
  /\ UNCHANGED << pipeVars, fs >>

\* what the onboarding subprocess leaves of the configuration it rewrites:
\* the plugin entry of the channel disabled, the other members as they were
onboardWrite(doc, channel) ==
  LET plugins == IF IsObj(Get(doc, "plugins")) THEN Get(doc, "plugins") ELSE EmptyObj
      entries == IF IsObj(Get(plugins, "entries")) THEN Get(plugins, "entries")
                 ELSE EmptyObj
  IN Put(doc, "plugins", Put(plugins, "entries",
         Put(entries, PluginEntry(channel), JObj([enabled |-> JBool(FALSE)]))))

\* the running subprocess rewrites the profile's configuration
ChildWrites(id) ==
  /\ id \in DOMAIN pipes
  /\ pipes[id].child = "running"
  /\ Parses(fs, pipes[id].profile)
  /\ fs' = Set(fs, profileDir(pipes[id].profile),
               onboardWrite(fs[profileDir(pipes[id].profile)], pipes[id].channel))
  /\ UNCHANGED << pipeVars, pipes >>

\* the subprocess exits by itself with the given code
ChildExit(id, code) ==
  /\ id \in DOMAIN pipes
  /\ pipes[id].child = "running"
  /\ pipes' = [pipes EXCEPT ![id].child = "exited", ![id].code = code]
  /\ UNCHANGED << pipeVars, fs >>

\* child.on("error"): the subprocess could not be spawned
OnError(id) ==
  /\ id \in DOMAIN pipes
  /\ pipes[id].child = "spawnfailed"
  /\ ~pipes[id].errorSeen
  /\ pipes' = [pipes EXCEPT ![id] =
                 reject([@ EXCEPT !.errorSeen = TRUE],
                        <<"Failed to start onboarding: ", "spawn openclaw ENOENT">>)]
  /\ UNCHANGED << pipeVars, fs >>

\* child.on("close")
OnClose(id, installOK, startOK) ==
  /\ id \in DOMAIN pipes
  /\ \/ pipes[id].child = "exited"
     \/ pipes[id].child = "spawnfailed" /\ pipes[id].errorSeen
  /\ LET r == closeHandler(fs, pipes[id], installOK, startOK)
     IN /\ fs' = r.fs
        /\ pipes' = [pipes EXCEPT ![id] = r.pipe]
  /\ UNCHANGED pipeVars

\* a settled invocation whose subprocess has closed is referenced by nothing
Forget(id) ==
  /\ id \in DOMAIN pipes
  /\ pipes[id].ended
  /\ pipes[id].child \in {"none", "closed"}
  /\ pipes' = Remove(pipes, id)
  /\ UNCHANGED << pipeVars, fs >>

(***************************************************************************)
(* Inputs                                                                  *)
(***************************************************************************)
A == <<"a">>
B == <<"b">>
KEY == <<"sk-key">>
TG_USER == <<"4", "2">>

NoHdr == <<>>
NoData ==
  [ profile |-> Empty, apiKey |-> Empty, model |-> Empty, channel |-> Empty,
    botToken |-> Empty, appId |-> Empty, appSecret |-> Empty, telegramId |-> Empty ]

SetupBody(profile) == [NoData EXCEPT !.profile = profile, !.apiKey = KEY]
ConnectBody(profile) == [NoData EXCEPT !.profile = profile, !.telegramId = TG_USER]

PortDoc(port) == JObj([gateway |-> JObj([port |-> JNum(port)])])

Absent == <<"absent">>

\* the home directory with the given openclaw.json (or NoFile, or no directory
\* at all) for the profiles default, a and b
HostOf(d, a, b) ==
  LET all == (profileDir(DEFAULT) :> d) @@ (profileDir(A) :> a) @@ (profileDir(B) :> b)
  IN [x \in { y \in DOMAIN all : all[y] # Absent } |-> all[x]]

(***************************************************************************)
(* Specifications                                                          *)
(***************************************************************************)
InitWith(mode, tok, host) ==
  /\ serverMode = mode
  /\ token = tok
  /\ now = 0
  /\ ticks = 0
  /\ sweepAt = SWEEP_INTERVAL
  /\ ticketStore = <<>>
  /\ issued = 0
  /\ failures = <<>>
  /\ fs = host
  /\ pipes = <<>>
  /\ cmds = {}
  /\ last = Response("", 0, 0, Ok)
  /\ redeemed = <<>>
  /\ ghostStore = <<>>
  /\ host0 = host

\* The profile lifecycle in local mode, one operation at a time: a setup or
\* a deletion begins only when no setup invocation is left.
LifeHosts ==
  { HostOf(Absent, Absent, Absent),
    HostOf(PortDoc(BASE_PORT), Absent, Absent),
    HostOf(PortDoc(BASE_PORT), PortDoc(BASE_PORT + 1), Absent),
    HostOf(PortDoc(BASE_PORT), EmptyObj, Absent) }

Init == \E host \in LifeHosts : InitWith(FALSE, Empty, host)

PipeNext(ids) ==
  \/ \E id \in ids : ClientClose(id)
  \/ \E id \in ids, n \in {1, 25} : ChildOutput(id, n)
  \/ \E id \in ids : ChildWrites(id)
  \/ \E id \in ids, code \in {0, 1} : ChildExit(id, code)
  \/ \E id \in ids : OnError(id)
  \/ \E id \in ids, installOK \in BOOLEAN, startOK \in BOOLEAN :
       OnClose(id, installOK, startOK)

Next ==
  \/ \E p \in {A, B} :
       pipes = <<>> /\ ticketStore = <<>> /\ SetupPrepare(NoHdr, SetupBody(p), MaxSetups)
  \/ \E id \in 1..MaxSetups, io \in {"ok", "mkdir", "write"}, spawnOK \in BOOLEAN :
       pipes = <<>> /\ id \in DOMAIN ticketStore /\ SetupStream(NoHdr, id, io, spawnOK)
  \/ \E p \in {A, B}, stopOK \in BOOLEAN, uninstallOK \in BOOLEAN, rmOK \in BOOLEAN :
       /\ pipes = <<>>
       /\ existsDir(fs, profileDir(p))
       /\ DeleteProfile(NoHdr, p, stopOK, uninstallOK, rmOK)
  \/ PipeNext(1..MaxSetups)
  \/ \E id \in 1..MaxSetups : Forget(id)

Spec == Init /\ [][Next]_vars


(***************************************************************************)
(* The ticket store: prepare and stream requests in any order, the clock   *)
(* and the sweep.  The onboarding subprocesses stay running: nothing they  *)
(* do reads or writes the store.                                           *)
(***************************************************************************)
TicketInit == InitWith(FALSE, Empty, HostOf(PortDoc(BASE_PORT), Absent, Absent))

TicketNext ==
  \/ SetupPrepare(NoHdr, SetupBody(A), MaxTickets)
  \/ ConnectPrepare(NoHdr, ConnectBody(DEFAULT), MaxTickets)
  \/ \E id \in 1..MaxTickets : SetupStream(NoHdr, id, "ok", TRUE)
  \/ \E id \in 1..MaxTickets : ConnectStream(NoHdr, id, TRUE)
  \/ \E d \in {1, TICKET_TTL - 1} : Tick(d)
  \/ Sweep

TicketSpec == TicketInit /\ [][TicketNext]_vars

\* this step is a stream request that presents ticket id
StreamRequest(id) ==
  \/ SetupStream(NoHdr, id, "ok", TRUE)
  \/ ConnectStream(NoHdr, id, TRUE)

\* the answer of this step is the ticket error, and the step starts no work
RejectedStep(id) ==
  /\ last' \in {InvalidTicket("/setup-stream", id), InvalidTicket("/connect-stream", id)}
  /\ cmds' = {}
  /\ UNCHANGED << fs, pipes, ticketStore, redeemed >>

\* C1: every issued ticket is redeemed by at most one stream request; the
\* redeeming request removes it from the store in the step that starts the
\* pipeline, so no invocation is ever keyed by a ticket still in the store; and
\* every stream request that presents an already redeemed ticket is answered
\* "Invalid or expired ticket" and changes neither the profiles nor the
\* invocations.
C1_SingleRedemption ==
  /\ [](/\ \A id \in 1..issued : redeemCount(id) <= 1
        /\ \A id \in DOMAIN redeemed : id \notin DOMAIN ticketStore
        /\ \A id \in DOMAIN pipes : id \notin DOMAIN ticketStore)
  /\ [][\A id \in 1..issued :
          redeemCount(id) >= 1 => (RejectedStep(id) \/ ~StreamRequest(id))]_vars

\* a ticket was redeemed by /setup-stream, which started its pipeline, and a
\* later /connect-stream with the same unexpired id got the ticket error
C1_Witness ==
  \E id \in DOMAIN pipes :
    /\ redeemCount(id) = 1
    /\ now < TICKET_TTL
    /\ last = InvalidTicket("/connect-stream", id)

\* C2: a stream request that presents a ticket whose expiry time has passed
\* is answered "Invalid or expired ticket" and starts no work, although the
\* ticket is still in the store and was never redeemed; and an expired ticket
\* stays expired: the clock never goes back, a stored ticket keeps its expiry
\* time, and an id that has left the store is never stored again.
C2_ExpiredUnredeemable ==
  [][/\ \A id \in DOMAIN ticketStore :
          ticketStore[id].expiresAt < now => (RejectedStep(id) \/ ~StreamRequest(id))
     /\ now' >= now
     /\ \A id \in DOMAIN ticketStore' :
          IF id \in DOMAIN ticketStore
          THEN ticketStore'[id].expiresAt = ticketStore[id].expiresAt
          ELSE id > issued /\ ticketStore'[id].expiresAt = now + TICKET_TTL]_vars

\* the first request to present a ticket came after its expiry and before any
\* sweep removed it, and was rejected
C2_Witness ==
  \E id \in DOMAIN ticketStore :
    /\ ticketStore[id].expiresAt < now
    /\ redeemCount(id) = 0
    /\ last = InvalidTicket("/setup-stream", id)

\* C3: the sweep removes only tickets the stream requests reject, and the
\* store answers every ticket id as the store of the same run without the
\* sweeps (ghostStore) does: the same ids pass the ticket check, with the
\* same payload.
C3_SweepNeutral ==
  /\ \A id \in sweepRemoves(ticketStore, now) : ~ticketValid(ticketStore, id, now)
  /\ \A id \in 1..MaxTickets :
       /\ ticketValid(ticketStore, id, now) = ticketValid(ghostStore, id, now)
       /\ ticketValid(ticketStore, id, now) =>
            ticketStore[id].data = ghostStore[id].data

\* a sweep has removed a ticket that the run without sweeps still stores, and
\* a stream request presenting it was rejected
C3_Witness ==
  \E id \in (DOMAIN ghostStore) \ (DOMAIN ticketStore) :
    /\ redeemCount(id) = 0
    /\ last \in {InvalidTicket("/setup-stream", id), InvalidTicket("/connect-stream", id)}

(***************************************************************************)
(* Server mode: the session gate in front of every route                   *)
(***************************************************************************)
TOK == <<"s3cret">>
OTHER_TOK == <<"guess">>
Tokens == {TOK, OTHER_TOK}

Cookie(name, value) == [name |-> name, value |-> value]

\* the Cookie header of a client that holds the session signed for tok
SessionHdr(tok) == <<Cookie(SESSION, signSession(tok))>>

\* headers that carry the session of the configured token
ValidHdrs(tok) ==
  { SessionHdr(tok),
    <<Cookie(NoEq, Empty), Cookie(<<"theme">>, <<"dark">>)>> \o SessionHdr(tok) }

\* headers that do not: none, a session signed for another token, the bare
\* token, the right value under another name, an empty session before the
\* right one
InvalidHdrs(tok) ==
  { NoHdr,
    SessionHdr(IF tok = TOK THEN OTHER_TOK ELSE TOK),
    <<Cookie(SESSION, tok)>>,
    <<Cookie(<<"sid">>, signSession(tok))>>,
    <<Cookie(SESSION, Empty)>> \o SessionHdr(tok) }

Hdrs(tok) == ValidHdrs(tok) \cup InvalidHdrs(tok)

GateInit == InitWith(TRUE, TOK, HostOf(PortDoc(BASE_PORT), Absent, Absent))

\* one request to a route behind the gate
GatedRequest(hdr) ==
  \/ \E up \in SUBSET {DEFAULT} : GetProfiles(hdr, up)
  \/ SetupPrepare(hdr, SetupBody(A), MaxTickets)
  \/ ConnectPrepare(hdr, ConnectBody(DEFAULT), MaxTickets)
  \/ \E id \in 1..MaxTickets : SetupStream(hdr, id, "ok", TRUE)
  \/ \E id \in 1..MaxTickets : ConnectStream(hdr, id, TRUE)
  \/ \E ok \in BOOLEAN : StartGateway(hdr, A, TRUE, ok)
  \/ \E ok \in BOOLEAN : StopGateway(hdr, A, ok)
  \/ \E ok \in BOOLEAN : RestartGateway(hdr, A, TRUE, ok)
  \/ DeleteProfile(hdr, A, TRUE, TRUE, TRUE)
  \/ ChangeModel(hdr, DEFAULT, SONNET4, TRUE)

GateNext ==
  \/ \E hdr \in Hdrs(token), up \in SUBSET {DEFAULT} : GetRoot(hdr, up)
  \/ \E hdr \in Hdrs(token), up \in SUBSET {DEFAULT} : GetProfiles(hdr, up)
  \/ \E hdr \in Hdrs(token) : SetupPrepare(hdr, SetupBody(A), MaxTickets)
  \/ \E hdr \in Hdrs(token) : ConnectPrepare(hdr, ConnectBody(DEFAULT), MaxTickets)
  \/ \E hdr \in Hdrs(token), id \in 1..MaxTickets : SetupStream(hdr, id, "ok", TRUE)
  \/ \E hdr \in Hdrs(token), id \in 1..MaxTickets : ConnectStream(hdr, id, TRUE)
  \/ \E hdr \in Hdrs(token), ok \in BOOLEAN : StartGateway(hdr, A, TRUE, ok)
  \/ \E hdr \in Hdrs(token), ok \in BOOLEAN : StopGateway(hdr, A, ok)
  \/ \E hdr \in Hdrs(token), ok \in BOOLEAN : RestartGateway(hdr, A, TRUE, ok)
  \/ \E hdr \in Hdrs(token) : DeleteProfile(hdr, A, TRUE, TRUE, TRUE)
  \/ \E hdr \in Hdrs(token) : ChangeModel(hdr, DEFAULT, SONNET4, TRUE)

GateSpec == GateInit /\ [][GateNext]_vars

\* C4: in server mode a request whose Cookie header carries no valid session
\* is answered 401 "Unauthorized" on every route behind the gate, and the
\* step runs no command and changes neither the profiles, the invocations nor
\* the ticket store; on GET / it is answered the page without the profile
\* state.
C4_Gate ==
  [][serverMode =>
       \A hdr \in InvalidHdrs(token) :
         /\ \/ /\ last'.status = 401
               /\ last'.body = Err("Unauthorized")
               /\ cmds' = {}
               /\ UNCHANGED << fs, pipes, ticketStore, issued, redeemed >>
            \/ ~GatedRequest(hdr)
         /\ \/ /\ last' = Response("/", 0, 200, <<"page">>)
               /\ cmds' = {}
               /\ UNCHANGED << fs, pipes, ticketStore, issued, redeemed >>
            \/ ~(\E up \in SUBSET {DEFAULT} : GetRoot(hdr, up))]_vars

\* a setup is in flight for profile a (so a session holder was let through),
\* and a request to delete it without a session was answered 401: the profile
\* is still there
C4_Witness ==
  /\ serverMode
  /\ last = Unauthorized("/delete-profile")
  /\ existsCfg(fs, A)
  /\ pipes # <<>>

(***************************************************************************)
(* Server mode: logins, the rate limiter and the sessions they issue       *)
(***************************************************************************)
IP1 == "10.0.0.1"
IP2 == "10.0.0.2"

LoginInit ==
  \E tok \in Tokens : InitWith(TRUE, tok, HostOf(PortDoc(BASE_PORT), Absent, Absent))

\* the Cookie header of a client that keeps what the last login gave it
JarHdr ==
  IF last.route = "/auth/login" /\ last.status = 200
  THEN <<Cookie(SESSION, last.body[2])>> ELSE NoHdr

LoginNext ==
  \/ \E ip \in {IP1, IP2}, bodyToken \in Tokens \cup {Undefined} : Login(ip, bodyToken)
  \/ \E d \in {1, RATE_WINDOW - 1} : Tick(d)
  \/ GetProfiles(JarHdr, {})

LoginSpec == LoginInit /\ [][LoginNext]_vars

\* the client has reached the failure threshold and its window is open
Limited(ip) ==
  /\ ip \in DOMAIN failures
  /\ now < failures[ip].resetAt
  /\ failures[ip].count >= MAX_ATTEMPTS

\* the failures of the client that count at this time
Counted(ip) ==
  IF ip \in DOMAIN failures /\ now < failures[ip].resetAt THEN failures[ip].count ELSE 0

\* C5: a login attempt of a client that has reached the failure threshold in
\* its open window is answered 429, whatever token it carries, issues no
\* session and leaves the counters alone; otherwise an attempt with another
\* token than the configured one is answered 401 and counts one more failure
\* for the client, and an attempt with the configured token is answered with
\* the signed session and clears the client's counter.
C5_RateLimit ==
  [][\A ip \in {IP1, IP2}, bodyToken \in Tokens \cup {Undefined} :
       Login(ip, bodyToken) =>
         IF Limited(ip)
         THEN /\ last'.status = 429
              /\ last'.body = Err("Too many attempts. Try again later.")
              /\ failures' = failures
         ELSE IF bodyToken # token
         THEN /\ last'.status = 401
              /\ ip \in DOMAIN failures'
              /\ failures'[ip].count = Counted(ip) + 1
              /\ now < failures'[ip].resetAt
              /\ \A other \in (DOMAIN failures) \ {ip} :
                   other \in DOMAIN failures' /\ failures'[other] = failures[other]
         ELSE /\ last'.status = 200
              /\ last'.body = <<"set-cookie", signSession(token)>>
              /\ ip \notin DOMAIN failures'
              /\ \A other \in (DOMAIN failures) \ {ip} :
                   other \in DOMAIN failures' /\ failures'[other] = failures[other]]_vars

\* a client at the threshold, inside its window, was answered 429
C5_Witness ==
  \E ip \in DOMAIN failures :
    /\ failures[ip].count = MAX_ATTEMPTS
    /\ now < failures[ip].resetAt
    /\ now > 0
    /\ last.route = "/auth/login"
    /\ last.status = 429

StrPortDoc == JObj([gateway |-> JObj([port |-> JStr(<<"28789">>)])])

\* what the directory of a profile can hold at start
FileKinds ==
  {Absent, NoFile, Unparsable, EmptyObj, StrPortDoc}
  \cup { PortDoc(BASE_PORT + k) : k \in 0..MaxPortOffset }

AllocInit ==
  \E d \in FileKinds, a \in FileKinds, b \in FileKinds :
    InitWith(FALSE, Empty, HostOf(d, a, b))

AllocNext ==
  \/ \E p \in {A, B} : SetupPrepare(NoHdr, SetupBody(p), 1)
  \/ SetupStream(NoHdr, 1, "ok", TRUE)

AllocSpec == AllocInit /\ [][AllocNext]_vars

\* the ports of the listed profiles, as the listing reports them
PortsOf(dirs) == { getProfileInfo(dirs, p, FALSE).port : p \in listProfiles(dirs) }

\* r is the smallest integer from BASE_PORT on that is none of the ports
IsSmallestFree(ports, r) ==
  /\ r \in Int
  /\ r >= BASE_PORT
  /\ JNum(r) \notin ports
  /\ \A k \in BASE_PORT..(r - 1) : JNum(k) \in ports

\* C7: on every host, nextAvailablePort returns the smallest integer from
\* the base port 28789 on that is not the port of a listed profile (a listed
\* profile whose configuration gives no port counts with the base port, as
\* in the listing); and the port a setup is given is that integer for the
\* host it started on.
C7_SmallestFree ==
  /\ IsSmallestFree(PortsOf(fs), nextAvailablePort(fs))
  /\ \A id \in DOMAIN pipes : IsSmallestFree(PortsOf(host0), pipes[id].port)

\* a setup was given the gap between the base port and a higher port in use
C7_Witness ==
  \E id \in DOMAIN pipes :
    /\ pipes[id].port = BASE_PORT + 1
    /\ JNum(BASE_PORT) \in PortsOf(host0)
    /\ JNum(BASE_PORT + 2) \in PortsOf(host0)

(***************************************************************************)
(* The profile lifecycle, one operation at a time                          *)
(***************************************************************************)
OnlyDefault == HostOf(PortDoc(BASE_PORT), Absent, Absent)

\* the listed profiles have pairwise distinct ports
Distinct(dirs) ==
  \A p \in listProfiles(dirs), q \in listProfiles(dirs) :
    p # q => readPort(dirs, p) # readPort(dirs, q)

\* C8: from a host whose listed profiles have pairwise distinct ports, every
\* sequence of setups, re-setups and deletions that do not overlap leaves the
\* listed profiles with pairwise distinct ports; and on the host where only
\* the default profile is listed, at the base port, the first profile
\* created is written with the next port and the profile created after it
\* with the port after that.
C8_DistinctPorts ==
  /\ [](Distinct(host0) => Distinct(fs))
  /\ [][host0 = OnlyDefault =>
          \A id \in (DOMAIN pipes') \ (DOMAIN pipes) :
            (pipes'[id].profile \notin listProfiles(fs) /\ pipes'[id].child # "none") =>
              /\ readPort(fs', pipes'[id].profile) = JNum(pipes'[id].port)
              /\ \A p \in listProfiles(fs) : readPort(fs, p) # JNum(pipes'[id].port)
              /\ listProfiles(fs) = {DEFAULT} => pipes'[id].port = BASE_PORT + 1
              /\ (\E p \in {A, B} : /\ listProfiles(fs) = {DEFAULT, p}
                                    /\ readPort(fs, p) = JNum(BASE_PORT + 1))
                   => pipes'[id].port = BASE_PORT + 2]_vars

\* two profiles were created one after the other and the first was set up
\* again: the three listed ports differ
C8_Witness ==
  /\ host0 = OnlyDefault
  /\ listProfiles(fs) = {DEFAULT, A, B}
  /\ readPort(fs, B) = JNum(BASE_PORT + 2)
  /\ readPort(fs, A) = JNum(BASE_PORT + 3)
  /\ last.route = "/setup-stream"

\* C10: an invocation whose client went away while its subprocess was
\* running has its subprocess killed (close reports no exit code), never
\* applies the final configuration, never tries the service install or
\* start, never resolves and never emits a Done event or progress beyond the
\* onboarding band; once the subprocess has closed its promise is rejected;
\* and the profiles stay as they were from the kill on.
C10_CancelFails ==
  /\ [](\A id \in DOMAIN pipes :
          pipes[id].abortedRunning =>
            /\ pipes[id].killed
            /\ pipes[id].child \in {"exited", "closed"}
            /\ pipes[id].code = NULL_CODE
            /\ ~pipes[id].reconciled
            /\ ~pipes[id].installTried
            /\ ~pipes[id].startTried
            /\ pipes[id].promise # "resolved"
            /\ pipes[id].child = "closed" =>
                 (pipes[id].promise = "rejected" /\ pipes[id].ended)
            /\ \A i \in DOMAIN pipes[id].out :
                 /\ pipes[id].out[i].kind # "done"
                 /\ pipes[id].out[i].percent <= MAX_ONBOARD)
  /\ [][(\E id \in DOMAIN pipes : pipes[id].abortedRunning) => fs' = fs]_vars

\* the client left a running onboarding, the subprocess closed, and the stream
\* ended with the failure event
C10_Witness ==
  \E id \in DOMAIN pipes :
    /\ pipes[id].abortedRunning
    /\ pipes[id].child = "closed"
    /\ pipes[id].promise = "rejected"
    /\ pipes[id].out[Len(pipes[id].out)] =
         Ev(-1, <<"Onboarding failed (exit ", "null", ")">>, "error", 0)

(***************************************************************************)
(* Concurrent setups: two through this manager, one through a second       *)
(* manager process on the same home directory, whose executor runs         *)
(* between the steps of this one                                           *)
(***************************************************************************)
C == <<"c">>

\* the invocation in the second manager: an id no ticket of this one has
PeerId == MaxTickets + 1

\* the second manager has run runSetupStream to the allocation of the port
PeerAllocate(profile) ==
  /\ PeerId \notin DOMAIN pipes
  /\ LET port == nextAvailablePort(fs)
         creds == [botToken |-> Empty, appId |-> Empty, appSecret |-> Empty]
         generated == generateConfig(KEY, OPUS46, TELEGRAM, creds, port)
     IN pipes' = Set(pipes, PeerId,
                     [NewPipe(profile, OPUS46, TELEGRAM, port, generated)
                        EXCEPT !.child = "allocated"])
  /\ UNCHANGED << pipeVars, fs >>

\* the second manager runs on from the allocation to the spawn
PeerWrite ==
  /\ PeerId \in DOMAIN pipes
  /\ pipes[PeerId].child = "allocated"
  /\ LET creds == [botToken |-> Empty, appId |-> Empty, appSecret |-> Empty]
         r == setupExecutor(fs, pipes[PeerId].port, pipes[PeerId].profile, KEY, OPUS46,
                            TELEGRAM, creds, "ok", TRUE)
     IN /\ fs' = r.fs
        /\ pipes' = Set(pipes, PeerId, r.pipe)
  /\ UNCHANGED pipeVars

ConcInit == InitWith(FALSE, Empty, OnlyDefault)

ConcNext ==
  \/ \E p \in {A, B} : SetupPrepare(NoHdr, SetupBody(p), MaxTickets)
  \/ \E id \in 1..MaxTickets : SetupStream(NoHdr, id, "ok", TRUE)
  \/ PeerAllocate(C)
  \/ PeerWrite
  \/ \E id \in 1..PeerId : ChildExit(id, 0)
  \/ \E id \in 1..PeerId : OnClose(id, TRUE, TRUE)

ConcSpec == ConcInit /\ [][ConcNext]_vars

\* the second manager has chosen its port and not yet written it
PeerPending == PeerId \in DOMAIN pipes /\ pipes[PeerId].child = "allocated"

\* C9: nothing reserves a port between its allocation and the write of the
\* configuration: while the second manager holds an allocated port that no
\* listed profile has yet, a setup of another new profile that begins is
\* given the same port.  (Within one manager the executor runs from the
\* allocation to the write without yielding: two of its own setups of
\* different new profiles, each the only setup of its profile, never hold
\* the same port.)
C9_NoReservation ==
  /\ [][\A id \in (DOMAIN pipes') \ (DOMAIN pipes) :
          ( /\ id # PeerId
            /\ PeerPending
            /\ JNum(pipes[PeerId].port) \notin usedPorts(fs)
            /\ pipes'[id].profile \notin listProfiles(fs)
            /\ pipes'[id].profile # pipes[PeerId].profile )
          => pipes'[id].port = pipes[PeerId].port]_vars
  /\ [](\A i \in (DOMAIN pipes) \ {PeerId}, j \in (DOMAIN pipes) \ {PeerId} :
          ( /\ pipes[i].profile # pipes[j].profile
            /\ {pipes[i].profile, pipes[j].profile} \cap listProfiles(host0) = {}
            /\ \A k \in (DOMAIN pipes) \ {i, j} :
                 pipes[k].profile \notin {pipes[i].profile, pipes[j].profile} )
          => pipes[i].port # pipes[j].port)

\* two setups of different new profiles were allocated the same port, wrote
\* it to both configurations and reported it in their Done events
C9_Witness ==
  \E id \in (DOMAIN pipes) \ {PeerId} :
    /\ PeerId \in DOMAIN pipes
    /\ host0 = OnlyDefault
    /\ pipes[id].profile # pipes[PeerId].profile
    /\ pipes[id].port = pipes[PeerId].port
    /\ pipes[id].promise = "resolved"
    /\ pipes[PeerId].promise = "resolved"
    /\ readPort(fs, pipes[id].profile) = JNum(pipes[id].port)
    /\ readPort(fs, pipes[PeerId].profile) = JNum(pipes[id].port)
    /\ pipes[id].out[Len(pipes[id].out)] = Ev(100, <<"Done">>, "done", pipes[id].port)
    /\ pipes[PeerId].out[Len(pipes[PeerId].out)] =
         Ev(100, <<"Done">>, "done", pipes[id].port)

(***************************************************************************)
(* The events of one setup stream                                          *)
(***************************************************************************)
\* how many events of the kind the stream has carried
EventCount(pipe, kind) ==
  Cardinality({ i \in DOMAIN pipe.out : pipe.out[i].kind = kind })

\* C11: a setup stream carries at most one terminal event, and it is the
\* last event of the stream: exactly one error event and no done event once
\* the promise is rejected, exactly one done event and no error event once it
\* is resolved, none while it is pending; and an invocation spawns its
\* subprocess at most once: a subprocess that has failed to spawn, exited or
\* closed is never running again.
C11_OneTerminalEvent ==
  /\ [](\A id \in DOMAIN pipes :
          LET pipe == pipes[id]
          IN /\ EventCount(pipe, "error") + EventCount(pipe, "done") <= 1
             /\ pipe.promise = "rejected" =>
                  /\ EventCount(pipe, "error") = 1
                  /\ pipe.out[Len(pipe.out)].kind = "error"
                  /\ pipe.ended
             /\ pipe.promise = "resolved" =>
                  /\ EventCount(pipe, "done") = 1
                  /\ pipe.out[Len(pipe.out)].kind = "done"
                  /\ pipe.ended
             /\ pipe.promise = "pending" =>
                  /\ EventCount(pipe, "error") + EventCount(pipe, "done") = 0
                  /\ ~pipe.ended)
  /\ [][\A id \in (DOMAIN pipes) \cap (DOMAIN pipes') :
          pipes[id].child # "running" => pipes'[id].child # "running"]_vars

\* the spawn failed: the error handler rejected, the close handler that
\* followed rejected again, and the stream holds the one error event
C11_Witness ==
  \E id \in DOMAIN pipes :
    /\ pipes[id].errorSeen
    /\ pipes[id].child = "closed"
    /\ pipes[id].promise = "rejected"
    /\ EventCount(pipes[id], "error") = 1

\* the stream has carried a progress event that starts with the text
HasProgress(pipe, text) ==
  \E i \in DOMAIN pipe.out :
    pipe.out[i].kind = "progress" /\ pipe.out[i].message = <<text>>

INSTALL_WARNING == "Warning: gateway service install failed"
START_WARNING == "Warning: gateway start failed"

\* what the close handler leaves for a subprocess that exited with code 0
ClosedAsDone(before, after, installOK, startOK) ==
  /\ after.promise = "resolved"
  /\ EventCount(after, "error") = 0
  /\ after.out[Len(after.out)] = Ev(100, <<"Done">>, "done", before.port)
  /\ after.installTried
  /\ HasProgress(after, INSTALL_WARNING) <=> ~installOK
  /\ after.startTried <=> installOK
  /\ HasProgress(after, "Starting gateway...") <=> installOK
  /\ HasProgress(after, START_WARNING) <=> (installOK /\ ~startOK)

\* C12: when the onboarding subprocess has exited with code 0, the close
\* handler reports a failing gateway install or a failing gateway start as a
\* warning progress event only: the promise resolves and the stream ends with
\* the done event carrying the port the invocation was allocated, with no
\* error event; and the start is attempted exactly when the install succeeded.
C12_WarningsOnly ==
  [][\A id \in DOMAIN pipes, installOK \in BOOLEAN, startOK \in BOOLEAN :
       \/ pipes[id].code # 0
       \/ ~OnClose(id, installOK, startOK)
       \/ ClosedAsDone(pipes[id], pipes'[id], installOK, startOK)]_vars

\* a setup whose gateway install failed: warned, start not attempted, done
\* with the allocated port
C12_Witness ==
  \E id \in DOMAIN pipes :
    /\ pipes[id].child = "closed"
    /\ pipes[id].code = 0
    /\ HasProgress(pipes[id], INSTALL_WARNING)
    /\ ~pipes[id].startTried
    /\ pipes[id].promise = "resolved"
    /\ pipes[id].out[Len(pipes[id].out)].kind = "done"
    /\ pipes[id].out[Len(pipes[id].out)].port = pipes[id].port

(***************************************************************************)
(* deepMerge on documents of every shape                                   *)
(***************************************************************************)
\* the object whose members are those of all that are not Absent
ObjOf(all) == JObj([k \in { j \in DOMAIN all : all[j] # Absent } |-> all[k]])

\* values that are no mapping: null, a number, arrays
Leaves == { JNull, JNum(1), JArr(<<JNum(1)>>), JArr(<<JNum(2)>>) }

InnerDocs == { ObjOf("z" :> z) : z \in Leaves \cup {Absent} }
MidDocs ==
  { ObjOf(("x" :> x) @@ ("y" :> y)) :
      x \in Leaves \cup InnerDocs \cup {Absent}, y \in {JNull, JNum(1), Absent} }
MergeDocs ==
  { ObjOf(("p" :> p) @@ ("q" :> q)) :
      p \in {JNull, JNum(1), JArr(<<JNum(1)>>), Absent} \cup MidDocs,
      q \in {JNum(2), EmptyObj, Absent} }

\* the arguments of a call of deepMerge and what it and a second call gave
TARGET == <<"target">>
SOURCE == <<"source">>
RESULT == <<"result">>
AGAIN == <<"again">>

MergeInit ==
  \E target \in MergeDocs, source \in MergeDocs :
    InitWith(FALSE, Empty, (TARGET :> target) @@ (SOURCE :> source))

\* result = deepMerge(target, source)
MergeOnce ==
  /\ RESULT \notin DOMAIN fs
  /\ fs' = Set(fs, RESULT, deepMerge(fs[TARGET], fs[SOURCE]))
  /\ UNCHANGED << pipeVars, pipes >>

\* again = deepMerge(result, source)
MergeAgain ==
  /\ RESULT \in DOMAIN fs
  /\ AGAIN \notin DOMAIN fs
  /\ fs' = Set(fs, AGAIN, deepMerge(fs[RESULT], fs[SOURCE]))
  /\ UNCHANGED << pipeVars, pipes >>

MergeNext ==
  \/ MergeOnce
  \/ MergeAgain

MergeSpec == MergeInit /\ [][MergeNext]_vars

\* C13: merging the same overlay a second time changes nothing:
\* deepMerge(deepMerge(A, B), B) = deepMerge(A, B) for all documents A and B.
C13_Idempotent ==
  AGAIN \in DOMAIN fs => fs[AGAIN] = fs[RESULT]

\* merged twice, where the first merge replaced an array by an array, merged
\* two mappings and added a key
C13_Witness ==
  /\ AGAIN \in DOMAIN fs
  /\ fs[RESULT] # fs[TARGET]
  /\ fs[RESULT] # fs[SOURCE]
  /\ IsObj(Get(fs[TARGET], "p")) /\ IsObj(Get(fs[SOURCE], "p"))
  /\ IsArr(Get(fs[TARGET][2]["p"], "x")) /\ IsArr(Get(fs[SOURCE][2]["p"], "x"))
  /\ Get(fs[TARGET], "q") = Undefined /\ Get(fs[SOURCE], "q") # Undefined

\* a mapping that is no array (null is neither)
IsMapping(v) == v[1] = "obj"

\* result is the recursive merge of the mappings base and overlay
RECURSIVE IsMergeOf(_, _, _)
IsMergeOf(base, overlay, result) ==
  /\ IsMapping(result)
  /\ DOMAIN result[2] = (DOMAIN base[2]) \cup (DOMAIN overlay[2])
  /\ \A key \in DOMAIN result[2] :
       IF key \notin DOMAIN overlay[2] THEN result[2][key] = base[2][key]
       ELSE IF key \in DOMAIN base[2] /\ IsMapping(base[2][key]) /\ IsMapping(overlay[2][key])
       THEN IsMergeOf(base[2][key], overlay[2][key], result[2][key])
       ELSE result[2][key] = overlay[2][key]

\* C14: for every key of the overlay, when the base's and the overlay's
\* values are not both non-array mappings the result holds exactly the
\* overlay's value (an array, a scalar or null replaces whatever the base
\* had, and is replaced by whatever the overlay has); when both are non-array
\* mappings the result holds the recursive merge of the two.
C14_RightBiased ==
  RESULT \in DOMAIN fs =>
    \A key \in DOMAIN fs[SOURCE][2] :
      /\ key \in DOMAIN fs[RESULT][2]
      /\ IF IsMapping(Get(fs[TARGET], key)) /\ IsMapping(fs[SOURCE][2][key])
         THEN IsMergeOf(fs[TARGET][2][key], fs[SOURCE][2][key], fs[RESULT][2][key])
         ELSE fs[RESULT][2][key] = fs[SOURCE][2][key]

\* merged: a number over a mapping at the top, and inside two merged mappings
\* an array over a mapping
C14_Witness ==
  /\ RESULT \in DOMAIN fs
  /\ IsMapping(Get(fs[TARGET], "q")) /\ Get(fs[SOURCE], "q") = JNum(2)
  /\ IsMapping(Get(fs[TARGET], "p")) /\ IsMapping(Get(fs[SOURCE], "p"))
  /\ IsMapping(Get(fs[TARGET][2]["p"], "x")) /\ IsArr(Get(fs[SOURCE][2]["p"], "x"))
  /\ fs[RESULT][2]["p"][2]["x"] = fs[SOURCE][2]["p"][2]["x"]
  /\ fs[RESULT][2]["q"] = JNum(2)

(***************************************************************************)
(* deepMerge on objects held by reference                                  *)
(***************************************************************************)
\* The heap is a sequence of objects; a member that is an object is a
\* reference to its place in the heap.  Arrays and scalars are values: the
\* function never writes into one.
Ref(at) == <<"ref", at>>
IsRef(v) == v[1] = "ref"

\* the document an object of the heap denotes
RECURSIVE Deref(_, _)
Deref(heap, at) ==
  JObj([key \in DOMAIN heap[at] |->
         IF IsRef(heap[at][key]) THEN Deref(heap, heap[at][key][2]) ELSE heap[at][key]])

RECURSIVE deepMergeAt(_, _, _)
RECURSIVE mergeKeysAt(_, _, _, _, _)

\* for (const key of Object.keys(source)) { ... }: the heap after the keys
\* that are left have been assigned to the result
mergeKeysAt(heap, result, target, source, keys) ==
  IF keys = {} THEN heap
  ELSE LET key == CHOOSE k \in keys : TRUE
           sv == heap[source][key]
           tv == IF key \in DOMAIN heap[target] THEN heap[target][key] ELSE Undefined
       IN IF IsRef(sv) /\ IsRef(tv)
          THEN LET sub == deepMergeAt(heap, tv[2], sv[2])
               IN mergeKeysAt([sub.heap EXCEPT ![result] = Set(@, key, Ref(sub.at))],
                              result, target, source, keys \ {key})
          ELSE mergeKeysAt([heap EXCEPT ![result] = Set(@, key, sv)],
                           result, target, source, keys \ {key})

\* a merge that assigns into the target itself
deepMergeInPlace(heap, target, source) ==
  [heap |-> mergeKeysAt(heap, target, target, source, DOMAIN heap[source]),
   at |-> target]

\* deepMerge: const result = { ...target } is a new object
deepMergeAt(heap, target, source) ==
  LET result == Len(heap) + 1
  IN [heap |-> mergeKeysAt(Append(heap, heap[target]), result, target, source,
                           DOMAIN heap[source]),
      at |-> result]

\* the members of an object: those of all that are not Absent
MembersOf(all) == [k \in { j \in DOMAIN all : all[j] # Absent } |-> all[k]]

\* Heaps of six objects: 1 is the target, 2 the source, 3 and 4 are objects
\* their member p may refer to, 5 and 6 objects the member x of those may
\* refer to.
Heaps ==
  { << MembersOf(("p" :> tp) @@ ("q" :> tq)), MembersOf(("p" :> sp) @@ ("q" :> sq)),
       MembersOf(("x" :> tx) @@ ("y" :> ty)), MembersOf(("x" :> sx) @@ ("y" :> sy)),
       MembersOf("z" :> tz), MembersOf("z" :> sz) >> :
      tp \in {Absent, JNum(1), Ref(3)}, tq \in {Absent, JNum(2)},
      sp \in {Absent, JArr(<<JNum(1)>>), Ref(3), Ref(4)}, sq \in {Absent, JNull},
      tx \in {Absent, JArr(<<JNum(1)>>), Ref(5)}, ty \in {Absent, JNum(1)},
      sx \in {Absent, JArr(<<JNum(2)>>), Ref(6)}, sy \in {Absent, JNum(2)},
      tz \in {Absent, JNum(1)}, sz \in {Absent, JNum(2)} }

HeapInit == \E heap \in Heaps : InitWith(FALSE, Empty, heap)

\* deepMerge(target, source) on the objects 1 and 2
MergeAt ==
  /\ Len(fs) = Len(host0)
  /\ fs' = deepMergeAt(fs, 1, 2).heap
  /\ UNCHANGED << pipeVars, pipes >>

HeapNext == MergeAt

HeapSpec == HeapInit /\ [][HeapNext]_vars

\* every key of the base that the overlay lacks keeps the base's value, at
\* the top and wherever a mapping was merged into a mapping
RECURSIVE BaseKept(_, _, _)
BaseKept(base, overlay, result) ==
  \A key \in DOMAIN base[2] :
    IF key \notin DOMAIN overlay[2]
    THEN key \in DOMAIN result[2] /\ result[2][key] = base[2][key]
    ELSE (IsMapping(base[2][key]) /\ IsMapping(overlay[2][key])) =>
           /\ IsMapping(Get(result, key))
           /\ BaseKept(base[2][key], overlay[2][key], result[2][key])

\* C15: a merge leaves every object that existed before it as it was, the
\* two inputs and every object they refer to included; its result is a new
\* object in which every key of the base that the overlay lacks holds the
\* base's value, at the top and at every level where a mapping was merged
\* into a mapping; and the result denotes the document the merge of the two
\* documents gives.
C15_NonDestructive ==
  [][\/ ~MergeAt
     \/ /\ \A at \in 1..Len(fs) : fs'[at] = fs[at]
        /\ Len(fs') > Len(fs)
        /\ BaseKept(Deref(fs, 1), Deref(fs, 2), Deref(fs', Len(fs) + 1))
        /\ Deref(fs', Len(fs) + 1) = deepMerge(Deref(fs, 1), Deref(fs, 2))]_vars

\* merged: the target had a key of its own at the top and one inside a
\* mapping that was merged with the source's, which took a new object
C15_Witness ==
  /\ Len(fs) > Len(host0) + 1
  /\ SubSeq(fs, 1, Len(host0)) = host0
  /\ "q" \in DOMAIN fs[1] /\ "q" \notin DOMAIN fs[2]
  /\ "p" \in DOMAIN fs[1] /\ "p" \in DOMAIN fs[2]
  /\ fs[1]["p"] = Ref(3) /\ fs[2]["p"] = Ref(4)
  /\ "y" \in DOMAIN fs[3] /\ "y" \notin DOMAIN fs[4]
  /\ "x" \in DOMAIN fs[4]
  /\ Deref(fs, Len(host0) + 1)[2]["q"] = fs[1]["q"]
  /\ Deref(fs, Len(host0) + 1)[2]["p"][2]["y"] = fs[3]["y"]
  /\ Deref(fs, Len(host0) + 1)[2]["p"][2]["x"] = Deref(fs, 4)[2]["x"]

(***************************************************************************)
(* The configuration of one profile under setups, model changes and        *)
(* deletions                                                               *)
(***************************************************************************)
GPT4 == <<"gpt-4">>

\* the model ids and channels a setup form may send ("" takes the default)
ModelInputs == {SONNET45, GPT4, Empty}
ChannelInputs == {TELEGRAM, FEISHU}

SetupForm(profile, model, channel) ==
  [SetupBody(profile) EXCEPT !.model = model, !.channel = channel]

ModelEntry(id) == JObj([id |-> JStr(id), name |-> JStr(id)])

\* a configuration made outside the manager: two models under the anthropic
\* provider, another provider's model as primary, the channel disabled
ForeignDoc ==
  JObj([ models |-> JObj([ providers |-> JObj([ anthropic |-> JObj(
           [ models |-> JArr(<<ModelEntry(OPUS41), ModelEntry(SONNET4)>>) ]) ]) ]),
         agents |-> JObj([ defaults |-> JObj([ model |-> JObj(
           [ primary |-> JStr(<<"openai", "/">> \o GPT4) ]) ]) ]),
         channels |-> JObj([ telegram |-> JObj([ enabled |-> JBool(FALSE) ]) ]),
         gateway |-> JObj([ port |-> JNum(BASE_PORT) ]) ])

ConfigInit ==
  \E a \in {Absent, NoFile, Unparsable, PortDoc(BASE_PORT), ForeignDoc} :
    InitWith(FALSE, Empty, HostOf(Absent, a, Absent))

ConfigNext ==
  \/ \E model \in ModelInputs, channel \in ChannelInputs :
       ticketStore = <<>> /\ SetupPrepare(NoHdr, SetupForm(A, model, channel), MaxTickets)
  \/ \E id \in 1..MaxTickets : pipes = <<>> /\ SetupStream(NoHdr, id, "ok", TRUE)
  \/ \E id \in 1..MaxTickets : ChildWrites(id)
  \/ \E id \in 1..MaxTickets, code \in {0, 1} : ChildExit(id, code)
  \/ \E id \in 1..MaxTickets : OnClose(id, TRUE, TRUE)
  \/ \E id \in 1..MaxTickets : Forget(id)
  \/ \E restartOK \in BOOLEAN : ChangeModel(NoHdr, A, OPUS45, restartOK)
  \/ existsDir(fs, profileDir(A)) /\ DeleteProfile(NoHdr, A, TRUE, TRUE, TRUE)

ConfigSpec == ConfigInit /\ [][ConfigNext]_vars

\* agents.defaults.model.primary and channels.<channel>.enabled of a document
Primary(doc) == Get(Get(Get(Get(doc, "agents"), "defaults"), "model"), "primary")
ChannelEnabled(doc, channel) ==
  Get(Get(Get(doc, "channels"), IF channel = TELEGRAM THEN "telegram" ELSE "feishu"),
      "enabled")

\* the profile's document, Undefined when there is none to read
DocOf(dirs, profile) ==
  IF Parses(dirs, profile) THEN dirs[profileDir(profile)] ELSE Undefined

\* the close handler resolved the invocation
ClosedDone(id) ==
  /\ id \in DOMAIN pipes
  /\ \E installOK \in BOOLEAN, startOK \in BOOLEAN : OnClose(id, installOK, startOK)
  /\ pipes'[id].promise = "resolved"

\* the configuration names the model and enables the channel of the setup
Configured(doc, modelId, channel) ==
  /\ Primary(doc) = JStr(<<"anthropic", "/">> \o modelId)
  /\ ChannelEnabled(doc, channel) = JBool(TRUE)

\* C16 as stated: a setup that completes as done leaves a configuration whose
\* primary model is "anthropic/" followed by the model id the setup was
\* given and whose channel is enabled.
C16_AnyModelId ==
  [][\A id \in 1..MaxTickets :
       \/ ~ClosedDone(id)
       \/ pipes[id].channel \notin {TELEGRAM, FEISHU}
       \/ Configured(DocOf(fs', pipes[id].profile), pipes[id].modelId,
                     pipes[id].channel)]_vars

\* C16, amended: for a model id of the catalog and a channel of telegram and
\* feishu, a setup that completes as done after its final configuration was
\* applied leaves a configuration whose primary model is "anthropic/"
\* followed by that id and whose channel is enabled; for an id that is not in
\* the catalog the primary model is that of the first catalog entry.
C16_CatalogModelId ==
  [][\A id \in 1..MaxTickets :
       \/ ~ClosedDone(id)
       \/ pipes[id].channel \notin {TELEGRAM, FEISHU}
       \/ ~pipes'[id].reconciled
       \/ Configured(DocOf(fs', pipes[id].profile),
                     IF InCatalog(pipes[id].modelId) THEN pipes[id].modelId
                     ELSE MODEL_CATALOG[1].id,
                     pipes[id].channel)]_vars

\* done for claude-sonnet-4-5-20250929 on feishu over a configuration made
\* elsewhere, after the subprocess rewrote the file
C16_Witness ==
  \E id \in DOMAIN pipes :
    /\ pipes[id].promise = "resolved"
    /\ pipes[id].reconciled
    /\ pipes[id].modelId = SONNET45
    /\ pipes[id].channel = FEISHU
    /\ host0 = HostOf(Absent, ForeignDoc, Absent)
    /\ Configured(DocOf(fs, A), SONNET45, FEISHU)
    /\ Get(Get(Get(DocOf(fs, A), "plugins"), "entries"), "feishu")
         = JObj([enabled |-> JBool(TRUE)])

\* models.providers.anthropic.models of a document
ModelList(doc) == Get(Get(Get(Get(doc, "models"), "providers"), "anthropic"), "models")

\* exactly one model entry under the anthropic provider, one primary-model
\* reference, and both name the same model id
OneModel(doc) ==
  /\ IsArr(ModelList(doc))
  /\ Len(ModelList(doc)[2]) = 1
  /\ Get(ModelList(doc)[2][1], "id")[1] = "str"
  /\ Primary(doc) = JStr(<<"anthropic", "/">> \o Get(ModelList(doc)[2][1], "id")[2])

\* the last request was a change-model that succeeded
ModelChanged == last.route = "/change-model" /\ last.status = 200

\* C17 as stated: after a successful change-model, and after a setup that
\* completed as done with its final configuration applied, the profile's
\* configuration has exactly one model entry under the anthropic provider and
\* one primary-model reference, both naming the same model id.
C17_AnySequence ==
  /\ ModelChanged => OneModel(DocOf(fs, A))
  /\ \A id \in DOMAIN pipes :
       (pipes[id].promise = "resolved" /\ pipes[id].reconciled /\ Parses(fs, A))
         => OneModel(DocOf(fs, A))

\* C17, amended: once a setup has written the profile's configuration, the
\* configuration has, for as long as the file exists, exactly one model entry
\* under the anthropic provider and one primary-model reference, both naming
\* the same model id, after every later setup and change-model; and a
\* change-model that succeeds leaves both naming the id it was given.  (Every
\* ticket redeemed in this specification reaches the write of the executor.)
C17_AfterSetup ==
  /\ []((redeemed # <<>> /\ existsDir(fs, profileDir(A))) => OneModel(DocOf(fs, A)))
  /\ [][\A restartOK \in BOOLEAN :
          \/ redeemed = <<>>
          \/ ~ChangeModel(NoHdr, A, OPUS45, restartOK)
          \/ last'.status # 200
          \/ /\ OneModel(DocOf(fs', A))
             /\ Primary(DocOf(fs', A)) = JStr(<<"anthropic", "/">> \o OPUS45)]_vars

\* a profile that came with two model entries was set up, and its model then
\* changed
C17_Witness ==
  /\ host0 = HostOf(Absent, ForeignDoc, Absent)
  /\ \E id \in DOMAIN pipes : pipes[id].promise = "resolved" /\ pipes[id].reconciled
  /\ ModelChanged
  /\ OneModel(DocOf(fs, A))
  /\ ModelList(DocOf(fs, A))[2][1][2]["id"] = JStr(OPUS45)

\* what a deletion that returned leaves of the listing and of the ports
Deleted(before, after, profile) ==
  /\ profile \notin listProfiles(after)
  /\ listProfiles(after) = listProfiles(before) \ {profile}
  /\ usedPorts(after) = { readPort(before, q) : q \in listProfiles(before) \ {profile} }
  /\ (\A q \in listProfiles(before) \ {profile} :
        readPort(before, q) # readPort(before, profile))
       => readPort(before, profile) \notin usedPorts(after)

\* C18: deleteProfile(p) returns whenever the removal of the directory does
\* not throw, whether or not the gateway stop and the gateway uninstall
\* succeeded; after it has returned p is not in listProfiles(), the other
\* profiles are listed as before, and the ports nextAvailablePort counts as
\* used are those of the other profiles only (p's port is counted only if
\* another profile holds the same port).
C18_DeletedUnlisted ==
  [][\A p \in {A, B}, stopOK \in BOOLEAN, uninstallOK \in BOOLEAN, rmOK \in BOOLEAN :
       \/ ~DeleteProfile(NoHdr, p, stopOK, uninstallOK, rmOK)
       \/ /\ rmOK => last'.status = 200
          /\ last'.status = 200 => Deleted(fs, fs', p)]_vars

\* profile a, listed at the start with a port, has been deleted, and its
\* port is the one the allocator gives next
C18_Witness ==
  /\ last.route = "/delete-profile"
  /\ last.status = 200
  /\ A \in listProfiles(host0)
  /\ A \notin listProfiles(fs)
  /\ listProfiles(fs) # {}
  /\ JNum(nextAvailablePort(fs)) = readPort(host0, A)

(***************************************************************************)
(* getProfileInfo for any name, listed or not                              *)
(***************************************************************************)
\* getProfileInfo(profile), given the outcome of the TCP probe
Info(profile, running) ==
  /\ last' = Response("info", 0, 200, <<"info", getProfileInfo(fs, profile, running)>>)
  /\ UNCHANGED << confVars, clockVars, ticketVars, authVars, hostVars >>

InfoInit ==
  \E d \in {Absent, PortDoc(BASE_PORT)},
     a \in {Absent, NoFile, Unparsable, PortDoc(BASE_PORT + 1), ForeignDoc},
     b \in {Absent, NoFile, Unparsable, PortDoc(BASE_PORT + 1), ForeignDoc} :
    InitWith(FALSE, Empty, HostOf(d, a, b))

InfoNext ==
  \/ \E p \in {DEFAULT, A, B}, running \in BOOLEAN : Info(p, running)
  \/ \E up \in {{}, {A}} : GetProfiles(NoHdr, up)
  \/ \E p \in {DEFAULT, A, B}, rmOK \in BOOLEAN :
       existsDir(fs, profileDir(p)) /\ DeleteProfile(NoHdr, p, TRUE, FALSE, rmOK)

InfoSpec == InfoInit /\ [][InfoNext]_vars

\* the last call was getProfileInfo for a profile that has been deleted
InfoOfDeleted ==
  /\ last.route = "info"
  /\ existsDir(host0, profileDir(last.body[2].profile))
  /\ ~existsDir(fs, profileDir(last.body[2].profile))

NotFound == [error |-> "NotFound"]

\* C19 as stated: getProfileInfo for a deleted profile returns NotFound.
C19_InfoNotFound == InfoOfDeleted => last.body[2] = NotFound

\* C19, amended: getProfileInfo for a deleted profile returns a profile
\* record, not an error: the name, the base port 28789, an empty model, model
\* id and channel, and the gateway state the probe of port 28789 gave; the
\* listing of all profiles holds no record for a deleted profile.
C19_InfoDegraded ==
  /\ InfoOfDeleted =>
       /\ last.body[2] = [profile |-> last.body[2].profile,
                          port |-> JNum(BASE_PORT),
                          gateway |-> last.body[2].gateway,
                          model |-> Empty, modelId |-> Empty, channel |-> Empty]
       /\ last.body[2].gateway \in {"running", "stopped"}
  /\ last.route = "/profiles" =>
       \A info \in last.body[2] : existsDir(fs, profileDir(info.profile))

\* getProfileInfo for profile a, which had a model before it was deleted,
\* with something answering on port 28789
C19_Witness ==
  /\ InfoOfDeleted
  /\ last.body[2].profile = A
  /\ host0[profileDir(A)] = ForeignDoc
  /\ getProfileInfo(host0, A, FALSE).modelId = GPT4
  /\ last.body[2].gateway = "running"

(***************************************************************************)
(* The profile names a setup is asked for                                  *)
(***************************************************************************)
\* a name of n letters
Letters(n) == [i \in 1..n |-> "x"]

\* profile fields of a setup form
NameInputs ==
  { Empty, DEFAULT, A, <<"A", "_", "-", "9">>, Letters(MAX_NAME), Letters(MAX_NAME + 1),
    <<" ", "a", " ">>, <<"\t", "a", "\n">>, <<" ", " ">>, <<"a", " ", "b">>,
    <<".", ".", "/", "x">>, <<"a", "/", "b">>, <<"a", "\n">> \o DEFAULT }

NameInit == \E a \in {Absent, PortDoc(BASE_PORT)} : InitWith(FALSE, Empty, HostOf(Absent, a, Absent))

NameNext ==
  \/ \E name \in NameInputs : SetupPrepare(NoHdr, SetupBody(name), MaxTickets)
  \/ \E id \in 1..MaxTickets, io \in {"ok", "mkdir"} : SetupStream(NoHdr, id, io, TRUE)
  \/ \E id \in 1..MaxTickets : ChildExit(id, 0)
  \/ \E id \in 1..MaxTickets : OnClose(id, TRUE, TRUE)

NameSpec == NameInit /\ [][NameNext]_vars

\* "default", or a name that matches ^[A-Za-z0-9_-]{1,32}$
ValidName(name) ==
  \/ name = DEFAULT
  \/ /\ Len(name) \in 1..MAX_NAME
     /\ \A i \in 1..Len(name) : name[i] \in NameChars

\* C20: every profile name for which the setup stream starts the pipeline is
\* "default" or matches ^[A-Za-z0-9_-]{1,32}$, every directory the manager
\* has made is the directory of such a name, and a request whose name, after
\* the defaulting and the trimming, is any other is answered 400 with no
\* invocation made and no directory or file touched.
C20_ValidNames ==
  /\ [](\A id \in DOMAIN pipes : ValidName(pipes[id].profile))
  /\ [](\A dir \in (DOMAIN fs) \ (DOMAIN host0) :
          \E name \in NameInputs : ValidName(trim(name)) /\ dir = profileDir(trim(name)))
  /\ [][\A id \in 1..MaxTickets, io \in {"ok", "mkdir"} :
          \/ ~(id \in DOMAIN ticketStore /\ SetupStream(NoHdr, id, io, TRUE))
          \/ ValidName(trim(OrElse(ticketStore[id].data.profile, DEFAULT)))
          \/ (last'.status = 400 /\ fs' = fs /\ pipes' = pipes)]_vars

(***************************************************************************)
(* The reconciliation of the close handler, over what the onboarding       *)
(* subprocess may leave of the configuration                               *)
(***************************************************************************)
SLACK == <<"slack">>
BOT == <<"123:bot">>
APP_ID == <<"cli_app">>
APP_SECRET == <<"app-secret">>

\* a setup form with credentials for both channels
ReconForm(profile, model, channel) ==
  [SetupBody(profile) EXCEPT !.model = model, !.channel = channel,
                             !.botToken = BOT, !.appId = APP_ID, !.appSecret = APP_SECRET]

PluginKey(channel) == IF channel = SLACK THEN "slack" ELSE PluginEntry(channel)

\* a configuration of the subprocess's own making: another port, another
\* primary model, the channel and its plugin disabled, keys of its own
OwnDoc(channel) ==
  JObj([ gateway |-> JObj([ port |-> JNum(18789), mode |-> JStr(<<"local">>) ]),
         agents |-> JObj([ defaults |-> JObj([ model |-> JObj(
           [ primary |-> JStr(<<"openai", "/">> \o GPT4) ]) ]) ]),
         channels |-> JObj((PluginKey(channel) :> JObj(
           [ enabled |-> JBool(FALSE), botToken |-> JStr(<<"none">>) ]))),
         wizard |-> JObj([ lastRunCommand |-> JStr(<<"onboard">>) ]),
         plugins |-> JObj([ entries |-> JObj(
           (PluginKey(channel) :> JObj([ enabled |-> JBool(FALSE) ]))
           @@ ("memory" :> JObj([ enabled |-> JBool(TRUE) ]))) ]) ])

\* the running subprocess writes its own values into the configuration
\* (whole: it replaces the file)
ChildRewrites(id, whole) ==
  /\ id \in DOMAIN pipes
  /\ pipes[id].child = "running"
  /\ Parses(fs, pipes[id].profile)
  /\ LET dir == profileDir(pipes[id].profile)
         own == OwnDoc(pipes[id].channel)
     IN fs' = Set(fs, dir, IF whole THEN own ELSE deepMerge(fs[dir], own))
  /\ UNCHANGED << pipeVars, pipes >>

ReconInit ==
  \E a \in {Absent, Unparsable, PortDoc(BASE_PORT), ForeignDoc} :
    InitWith(FALSE, Empty, HostOf(Absent, a, Absent))

ReconNext ==
  \/ \E model \in {SONNET45, GPT4}, channel \in {TELEGRAM, FEISHU, SLACK} :
       /\ ticketStore = <<>>
       /\ pipes = <<>>
       /\ SetupPrepare(NoHdr, ReconForm(A, model, channel), MaxTickets)
  \/ \E id \in 1..MaxTickets : pipes = <<>> /\ SetupStream(NoHdr, id, "ok", TRUE)
  \/ \E id \in 1..MaxTickets : ChildWrites(id)
  \/ \E id \in 1..MaxTickets, whole \in BOOLEAN : ChildRewrites(id, whole)
  \/ \E id \in 1..MaxTickets, code \in {0, 1} : ChildExit(id, code)
  \/ \E id \in 1..MaxTickets, installOK \in BOOLEAN : OnClose(id, installOK, TRUE)
  \/ \E id \in 1..MaxTickets : Forget(id)
  \/ /\ AnyInFlight
     /\ existsDir(fs, profileDir(A))
     /\ DeleteProfile(NoHdr, A, TRUE, TRUE, TRUE)

ReconSpec == ReconInit /\ [][ReconNext]_vars

\* doc without the member key
Without(doc, key) == JObj([k \in (DOMAIN doc[2]) \ {key} |-> doc[2][k]])

\* plugins.entries of a document
PluginEntries(doc) == Get(Get(doc, "plugins"), "entries")

Enabled == JObj([enabled |-> JBool(TRUE)])

\* final is the reconciled document of a setup: the document found after
\* onboarding merged with the generated one, the generated one winning, and
\* the plugin entry of the channel enabled, the other plugin members kept
IsReconciled(post, generated, channel, final) ==
  /\ IsMapping(final)
  /\ IsMergeOf(Without(post, "plugins"), generated, Without(final, "plugins"))
  /\ IsMapping(Get(final, "plugins"))
  /\ IsMapping(PluginEntries(final))
  /\ channel \in {TELEGRAM, FEISHU} => Get(PluginEntries(final), PluginKey(channel)) = Enabled
  /\ \A k \in DOMAIN PluginEntries(final)[2] :
       k # PluginKey(channel) => Get(PluginEntries(post), k) = PluginEntries(final)[2][k]
  /\ IsMapping(PluginEntries(post)) =>
       DOMAIN PluginEntries(post)[2] \subseteq DOMAIN PluginEntries(final)[2]
  /\ IsMapping(Get(post, "plugins")) =>
       Without(Get(post, "plugins"), "entries") = Without(Get(final, "plugins"), "entries")

\* the values the caller of the setup gave, as the document holds them
CallerValues(doc, pipe) ==
  /\ Primary(doc) = JStr(<<"anthropic", "/">> \o
                         (IF InCatalog(pipe.modelId) THEN pipe.modelId ELSE OPUS46))
  /\ Get(Get(Get(Get(doc, "models"), "providers"), "anthropic"), "apiKey") = JStr(KEY)
  /\ Get(Get(doc, "gateway"), "port") = JNum(pipe.port)
  /\ pipe.channel = TELEGRAM =>
       /\ ChannelEnabled(doc, TELEGRAM) = JBool(TRUE)
       /\ Get(Get(Get(doc, "channels"), "telegram"), "botToken") = JStr(BOT)
  /\ pipe.channel = FEISHU =>
       /\ ChannelEnabled(doc, FEISHU) = JBool(TRUE)
       /\ Get(Get(Get(Get(Get(doc, "channels"), "feishu"), "accounts"), "main"), "appId")
            = JStr(APP_ID)
       /\ Get(Get(Get(Get(Get(doc, "channels"), "feishu"), "accounts"), "main"),
              "appSecret") = JStr(APP_SECRET)

FINAL_WARNING == "Warning: failed to apply final config"

ExitError(code) ==
  Ev(-1, <<"Onboarding failed (exit ",
           IF code = 1 THEN "1" ELSE IF code = NULL_CODE THEN "null" ELSE "-2", ")">>,
     "error", 0)

SpawnError == Ev(-1, <<"Failed to start onboarding: ", "spawn openclaw ENOENT">>, "error", 0)

\* the error events the stream has carried
ErrorEvents(pipe) == { pipe.out[i] : i \in { j \in DOMAIN pipe.out : pipe.out[j].kind = "error" } }

\* C22: a close of the onboarding subprocess with an exit code other than 0
\* (null after a signal included) leaves the promise rejected, the stream
\* ended with the one error event "Onboarding failed (exit <code>)", the
\* profiles as they were, and neither the final configuration applied nor
\* the gateway install or start tried; a subprocess that cannot be spawned
\* leaves the promise rejected with the one error event "Failed to start
\* onboarding: ...", and the close that follows adds no exit-code error and
\* tries none of the three either.
C22_FailureRejects ==
  /\ [][\A id \in DOMAIN pipes, installOK \in BOOLEAN, startOK \in BOOLEAN :
          \/ pipes[id].code = 0
          \/ ~OnClose(id, installOK, startOK)
          \/ /\ pipes'[id].promise = "rejected"
             /\ pipes'[id].ended
             /\ fs' = fs
             /\ ~pipes'[id].reconciled
             /\ ~pipes'[id].installTried
             /\ ~pipes'[id].startTried
             /\ ErrorEvents(pipes'[id]) =
                  IF pipes[id].child = "spawnfailed" THEN {SpawnError}
                  ELSE {ExitError(pipes[id].code)}
             /\ EventCount(pipes'[id], "error") = 1
             /\ EventCount(pipes'[id], "done") = 0]_vars
  /\ [][\A id \in DOMAIN pipes :
          \/ ~OnError(id)
          \/ /\ pipes'[id].promise = "rejected"
             /\ pipes'[id].out[Len(pipes'[id].out)] = SpawnError
             /\ fs' = fs]_vars

\* the subprocess exited with code 1: the stream ended with that code, and
\* the profile holds the configuration written before onboarding, without
\* the plugin entry the reconciliation adds
C22_Witness ==
  \E id \in DOMAIN pipes :
    /\ pipes[id].child = "closed"
    /\ pipes[id].code = 1
    /\ ~pipes[id].killed
    /\ pipes[id].out[Len(pipes[id].out)] = ExitError(1)
    /\ Parses(fs, pipes[id].profile)
    /\ Get(Get(fs[profileDir(pipes[id].profile)], "gateway"), "port") = JNum(pipes[id].port)
    /\ Get(PluginEntries(fs[profileDir(pipes[id].profile)]), "telegram") = Undefined

(***************************************************************************)
(* Termination of the setup streams: two tickets, their streams running    *)
(* side by side.  The events node has queued for an invocation ('error',   *)
(* 'close') are delivered, and a subprocess that runs does exit.           *)
(***************************************************************************)
LiveNext ==
  \/ /\ ticketStore = <<>>
     /\ SetupPrepare(NoHdr, SetupBody(IF issued = 0 THEN A ELSE B), MaxTickets)
  \/ \E id \in 1..MaxTickets, io \in {"ok", "mkdir", "write"}, spawnOK \in BOOLEAN :
       id \in DOMAIN ticketStore /\ SetupStream(NoHdr, id, io, spawnOK)
  \/ \E id \in 1..MaxTickets : ClientClose(id)
  \/ \E id \in 1..MaxTickets, code \in {0, 1} : ChildExit(id, code)
  \/ \E id \in 1..MaxTickets : OnError(id)
  \/ \E id \in 1..MaxTickets : OnClose(id, TRUE, TRUE)

LiveInit == InitWith(FALSE, Empty, OnlyDefault)

LiveSpec ==
  /\ LiveInit
  /\ [][LiveNext]_vars
  /\ \A id \in 1..MaxTickets :
       /\ WF_vars(\E code \in {0, 1} : ChildExit(id, code))
       /\ WF_vars(OnError(id))
       /\ WF_vars(OnClose(id, TRUE, TRUE))

\* the stream request of the ticket was accepted: it began an invocation
Accepted(id) == id \in DOMAIN pipes

\* the stream has carried its terminal event, last, and the response has ended
Terminated(id) ==
  /\ id \in DOMAIN pipes
  /\ pipes[id].ended
  /\ pipes[id].out # <<>>
  /\ LET ev == pipes[id].out[Len(pipes[id].out)]
     IN \/ ev.kind = "done" /\ ev.port = pipes[id].port /\ ev.percent = 100
        \/ ev.kind = "error" /\ ev.message # <<>> /\ ev.percent = -1

\* C23: every setup stream that was accepted eventually carries a terminal
\* event (done with the port of the invocation, or error with a message) as
\* its last event and has its response ended, and stays so; this holds when
\* the directory creation or the configuration write throws, when the spawn
\* fails, when the client goes away, and for every exit code.
C23_StreamTerminates ==
  /\ \A id \in 1..MaxTickets : Accepted(id) ~> Terminated(id)
  /\ [][\A id \in 1..MaxTickets : Terminated(id) => Terminated(id)']_vars

\* a stream whose configuration write threw has ended with the error event,
\* no subprocess spawned, while the other stream ended with done
C23_Witness ==
  \E id \in DOMAIN pipes, other \in DOMAIN pipes :
    /\ pipes[id].child = "none"
    /\ Terminated(id)
    /\ pipes[id].out[Len(pipes[id].out)] = Ev(-1, <<"write failed">>, "error", 0)
    /\ Terminated(other)
    /\ pipes[other].out[Len(pipes[other].out)].kind = "done"

(***************************************************************************)
(* The percent values of one invocation                                    *)
(***************************************************************************)
\* the places of the stream's progress events, in order
ProgressAt(pipe) == { i \in DOMAIN pipe.out : pipe.out[i].kind = "progress" }

\* the places of the events tick has sent for output lines
LineAt(pipe) == { i \in ProgressAt(pipe) : pipe.out[i].message = <<"line">> }

ONBOARD_START == 15

\* the percent after k advances of TICK_STEP from ONBOARD_START under the ceiling
AfterLines(k) ==
  IF ONBOARD_START + TICK_STEP * k < MAX_ONBOARD
  THEN ONBOARD_START + TICK_STEP * k ELSE MAX_ONBOARD

\* C24: within one invocation the percent values sent through the progress
\* callback never decrease; the k-th output line that sends an event sends
\* 15 + 3k, or 80 where that would pass 80, and a line that finds the percent
\* at 80 sends nothing; no progress event before the close of the subprocess
\* is above 80; and a progress event above 80, like the done event, is sent
\* only by the close handler of a subprocess that exited with code 0.
C24_PercentMonotone ==
  /\ [](\A id \in DOMAIN pipes :
          LET pipe == pipes[id]
          IN /\ \A i \in ProgressAt(pipe), j \in ProgressAt(pipe) :
                  i < j => pipe.out[i].percent <= pipe.out[j].percent
             /\ \A i \in LineAt(pipe) :
                  /\ pipe.out[i].percent =
                       AfterLines(Cardinality({ j \in LineAt(pipe) : j <= i }))
                  /\ pipe.out[i].percent <= MAX_ONBOARD
                  /\ \E j \in ProgressAt(pipe) :
                       j < i /\ pipe.out[j].percent = ONBOARD_START
             /\ pipe.pct \in {0, AfterLines(Cardinality(LineAt(pipe)))}
             /\ \A i \in DOMAIN pipe.out :
                  (pipe.out[i].kind # "error" /\ pipe.out[i].percent > MAX_ONBOARD) =>
                    (pipe.child = "closed" /\ pipe.code = 0))
  /\ [][\A id \in DOMAIN pipes, n \in {1, 25} :
          \/ ~ChildOutput(id, n)
          \/ /\ pipes'[id].pct = IF pipes[id].pct + TICK_STEP * n < MAX_ONBOARD
                                 THEN pipes[id].pct + TICK_STEP * n ELSE MAX_ONBOARD
             /\ pipes[id].pct = MAX_ONBOARD => pipes'[id].out = pipes[id].out
             /\ Len(pipes'[id].out) <= Len(pipes[id].out) + n]_vars

\* a subprocess printed more lines than there are steps to the ceiling: the
\* stream went 18, ..., 78, 80, then on from 85 to the done event
C24_Witness ==
  \E id \in DOMAIN pipes :
    /\ pipes[id].promise = "resolved"
    /\ pipes[id].pct = MAX_ONBOARD
    /\ Cardinality(LineAt(pipes[id])) = 22
    /\ \E i \in LineAt(pipes[id]) :
         /\ pipes[id].out[i].percent = 78
         /\ pipes[id].out[i + 1].percent = MAX_ONBOARD
         /\ pipes[id].out[i + 2].percent = 85

(***************************************************************************)
(* The requests the routes answer with an error: bad parameters, unknown   *)
(* tickets, profiles without a configuration, names outside the pattern    *)
(***************************************************************************)
\* a name with a space inside: trim leaves it, the pattern does not match it
BadName == <<"a", " ", "b">>
Blank == <<" ", " ">>

SetupBodies ==
  { SetupBody(A), SetupBody(BadName), SetupBody(Letters(MAX_NAME + 1)),
    [SetupBody(A) EXCEPT !.apiKey = Blank] }

ConnectBodies ==
  { ConnectBody(A), ConnectBody(BadName),
    [ConnectBody(A) EXCEPT !.telegramId = Blank],
    [ConnectBody(A) EXCEPT !.telegramId = Empty, !.channel = FEISHU] }

RouteNames == {A, BadName}

\* profile a with or without a configuration, and a directory
\* .openclaw-"a b" with a configuration
RequestInit ==
  \E a \in {Absent, NoFile, PortDoc(BASE_PORT)} :
    InitWith(FALSE, Empty,
             Set(HostOf(Absent, a, Absent), profileDir(BadName), PortDoc(BASE_PORT + 1)))

\* One request at a time; a route other than the ticket routes is taken
\* while no ticket is outstanding.
RequestNext ==
  \/ \E body \in SetupBodies : ticketStore = <<>> /\ SetupPrepare(NoHdr, body, MaxTickets)
  \/ \E body \in ConnectBodies :
       ticketStore = <<>> /\ ConnectPrepare(NoHdr, body, MaxTickets)
  \/ \E id \in 1..MaxTickets : SetupStream(NoHdr, id, "ok", TRUE)
  \/ \E id \in 1..MaxTickets : ConnectStream(NoHdr, id, TRUE)
  \/ \E name \in RouteNames, installOK \in BOOLEAN, startOK \in BOOLEAN :
       ticketStore = <<>> /\ StartGateway(NoHdr, name, installOK, startOK)
  \/ \E name \in RouteNames :
       ticketStore = <<>> /\ StopGateway(NoHdr, name, TRUE)
  \/ \E name \in RouteNames, installOK \in BOOLEAN, ok \in BOOLEAN :
       ticketStore = <<>> /\ RestartGateway(NoHdr, name, installOK, ok)
  \/ \E name \in RouteNames :
       ticketStore = <<>> /\ DeleteProfile(NoHdr, name, TRUE, TRUE, TRUE)
  \/ \E name \in RouteNames :
       ticketStore = <<>> /\ ChangeModel(NoHdr, name, OPUS45, TRUE)

RequestSpec == RequestInit /\ [][RequestNext]_vars

\* the parameters of a setup ticket fail the checks of /setup-stream: no API
\* key is left after trimming, or the name is not empty, not "default" and
\* does not match ^[A-Za-z0-9_-]{1,32}$
SetupInvalid(data) ==
  \/ trim(data.apiKey) = Empty
  \/ /\ trim(OrElse(data.profile, DEFAULT)) # Empty
     /\ ~ValidName(trim(OrElse(data.profile, DEFAULT)))

\* the parameters of a connect ticket fail the check of /connect-stream: the
\* channel is telegram and no user id is left after trimming
ConnectInvalid(data) ==
  /\ trim(OrElse(data.channel, TELEGRAM)) = TELEGRAM
  /\ trim(data.telegramId) = Empty

\* this step is a stream request with a stored, unexpired ticket whose
\* parameters fail validation
InvalidStream(id) ==
  /\ ticketValid(ticketStore, id, now)
  /\ \/ SetupStream(NoHdr, id, "ok", TRUE) /\ SetupInvalid(ticketStore[id].data)
     \/ ConnectStream(NoHdr, id, TRUE) /\ ConnectInvalid(ticketStore[id].data)

\* the step left the profiles, the invocations and the commands alone
NoWork ==
  /\ fs' = fs
  /\ pipes' = pipes
  /\ cmds' = {}
  /\ failures' = failures
  /\ issued' = issued

\* C25 as stated: a stream request whose parameters fail validation is
\* answered 400 and changes nothing: no directory or configuration, no
\* subprocess, and no other state of the server, the ticket store included.
C25_NoSideEffects ==
  [][\A id \in 1..MaxTickets :
       \/ ~InvalidStream(id)
       \/ /\ last'.status = 400
          /\ NoWork
          /\ ticketStore' = ticketStore]_vars

\* C25, amended: a /setup-stream request whose API key is empty after
\* trimming or whose profile name validateProfileName rejects, and a
\* /connect-stream request for telegram whose user id is empty after
\* trimming, is answered 400 with the error of the failed check; it creates
\* or changes no directory or configuration, starts no invocation and runs no
\* command; its one effect is that the ticket is consumed: it has left the
\* store, and the other tickets are as they were.  Every other accepted
\* ticket is answered 200.
C25_OnlyTicketConsumed ==
  /\ [][\A id \in 1..MaxTickets :
          \/ ~InvalidStream(id)
          \/ /\ last'.status = 400
             /\ last'.body \in { Err("API Key required"), Err("Telegram User ID required"),
                                 Err("Profile name too long (max 32 characters)"),
                                 Err("Profile name can only contain letters, numbers, hyphens and underscores") }
             /\ NoWork
             /\ ticketStore' = Remove(ticketStore, id)
             /\ redeemCount(id)' = 1]_vars
  /\ [][\A id \in 1..MaxTickets :
          \/ ~ticketValid(ticketStore, id, now)
          \/ ~(SetupStream(NoHdr, id, "ok", TRUE) \/ ConnectStream(NoHdr, id, TRUE))
          \/ InvalidStream(id)
          \/ last'.status = 200]_vars

\* a setup ticket whose API key was blanks was answered 400: the ticket is
\* gone, nothing was made for profile a, and no invocation began
C25_Witness ==
  \E id \in DOMAIN redeemed :
    /\ last = Response("/setup-stream", id, 400, Err("API Key required"))
    /\ id \notin DOMAIN ticketStore
    /\ fs = host0
    /\ pipes = <<>>

\* this step is a request to one of the gateway, delete-profile and
\* change-model routes that names the profile
NamedRequest(name) ==
  \/ StartGateway(NoHdr, name, TRUE, TRUE)
  \/ StopGateway(NoHdr, name, TRUE)
  \/ \E ok \in BOOLEAN : RestartGateway(NoHdr, name, TRUE, ok)
  \/ DeleteProfile(NoHdr, name, TRUE, TRUE, TRUE)
  \/ ChangeModel(NoHdr, name, OPUS45, TRUE)

\* this step is a connect request whose ticket names the profile
NamedConnect(id, name) ==
  /\ ticketValid(ticketStore, id, now)
  /\ trim(OrElse(ticketStore[id].data.profile, DEFAULT)) = name
  /\ ConnectStream(NoHdr, id, TRUE)

\* the step was answered as a validation error, before any command was run
\* and before any file or directory was written or removed
RejectedName ==
  /\ last'.status = 400
  /\ cmds' = {}
  /\ fs' = fs

\* C26: a start-gateway, stop-gateway, restart-gateway, delete-profile,
\* change-model or connect request that names a profile which is neither
\* "default" nor a match of ^[A-Za-z0-9_-]{1,32}$ is rejected as a validation
\* error, with no command run and no file or directory written or removed.
C26_RoutesValidateNames ==
  [][\A name \in RouteNames :
       \/ ValidName(name)
       \/ /\ RejectedName \/ ~NamedRequest(name)
          /\ \A id \in 1..MaxTickets : RejectedName \/ ~NamedConnect(id, name)]_vars

\* this step is a stream request whose ticket is not in the store or has expired
UnknownTicket(id) ==
  /\ ~ticketValid(ticketStore, id, now)
  /\ SetupStream(NoHdr, id, "ok", TRUE) \/ ConnectStream(NoHdr, id, TRUE)

\* this step is a change-model request, for a model of the catalog, naming a
\* profile that has no configuration document
ChangeModelNoConfig(name) ==
  /\ ~existsCfg(fs, trim(name))
  /\ ChangeModel(NoHdr, name, OPUS45, TRUE)

\* this step is a connect request for telegram, with a user id, whose ticket
\* names a profile that has no configuration document
ConnectNoConfig(id) ==
  /\ ticketValid(ticketStore, id, now)
  /\ ~ConnectInvalid(ticketStore[id].data)
  /\ trim(OrElse(ticketStore[id].data.channel, TELEGRAM)) = TELEGRAM
  /\ ~existsCfg(fs, trim(OrElse(ticketStore[id].data.profile, DEFAULT)))
  /\ ConnectStream(NoHdr, id, TRUE)

\* this step refers to a ticket or a configuration document that does not exist
RefersToMissing ==
  \/ \E id \in 1..MaxTickets : UnknownTicket(id) \/ ConnectNoConfig(id)
  \/ \E name \in RouteNames : ChangeModelNoConfig(name)

\* C27 as stated: a stream request with an unknown ticket, and a change-model
\* or connect request for a profile without a configuration document, is
\* answered with a status of the 400/404 class.
C27_MissingIs4xx ==
  [][RefersToMissing => last'.status \in {400, 404}]_vars

\* C27, amended: a request that refers to something that does not exist is
\* answered with an error and changes no file and runs no command, but the
\* form of the error depends on the route.  An unknown or expired ticket on
\* either stream endpoint is answered 400 "Invalid or expired ticket" and
\* the ticket store stays as it is.  A change-model request, with a model of
\* the catalog, for a profile without a configuration document is answered
\* 500 with the message "Config not found for profile" (followed by the
\* name).  A telegram connect request, with a user id, for such a profile is
\* answered 200: the event stream is opened, and its one event is an error
\* event with percent -1 and the message "Config not found."; the ticket is
\* consumed.
C27_MissingReported ==
  /\ [][\A id \in 1..MaxTickets :
          \/ ~UnknownTicket(id)
          \/ /\ last'.status = 400
             /\ last'.body = Err("Invalid or expired ticket")
             /\ NoWork
             /\ ticketStore' = ticketStore]_vars
  /\ [][\A name \in RouteNames :
          \/ ~ChangeModelNoConfig(name)
          \/ /\ last'.status = 500
             /\ last'.body = Err("Config not found for profile")
             /\ NoWork]_vars
  /\ [][\A id \in 1..MaxTickets :
          \/ ~ConnectNoConfig(id)
          \/ /\ last'.status = 200
             /\ last'.body = <<"sse", <<Ev(-1, <<"Config not found.">>, "error", 0)>> >>
             /\ NoWork
             /\ ticketStore' = Remove(ticketStore, id)]_vars

\* profile a has a directory without a configuration document, and a connect
\* ticket for it was answered by an event stream whose one event is the error
C27_Witness ==
  /\ existsDir(fs, profileDir(A))
  /\ ~existsCfg(fs, A)
  /\ last.route = "/connect-stream"
  /\ last.ticket = 1
  /\ last.status = 200
  /\ last.body = <<"sse", <<Ev(-1, <<"Config not found.">>, "error", 0)>> >>
  /\ redeemCount(1) = 1
  /\ ticketStore = <<>>


(***************************************************************************)
(* Status reporting: getProfileInfo and the listing, over profiles whose   *)
(* configuration is missing, unparsable, or names a port that is none      *)
(***************************************************************************)
\* a configuration whose gateway.port is out of the range of ports
BadPortDoc == PortDoc(70000)

ProbeInit ==
  \E d \in {Absent, PortDoc(BASE_PORT)},
     a \in {Absent, NoFile, Unparsable, ForeignDoc, BadPortDoc},
     b \in {Absent, Unparsable, PortDoc(BASE_PORT + 1), BadPortDoc} :
    InitWith(FALSE, Empty, HostOf(d, a, b))

ProbeNext ==
  \/ \E p \in {DEFAULT, A, B}, running \in BOOLEAN : Info(p, running)
  \/ \E up \in {{}, {A}} : GetProfiles(NoHdr, up)
  \/ \E up \in {{}, {A}} : GetRoot(NoHdr, up)
  \/ \E p \in {A, B} :
       existsDir(fs, profileDir(p)) /\ DeleteProfile(NoHdr, p, TRUE, TRUE, TRUE)

ProbeSpec == ProbeInit /\ [][ProbeNext]_vars

\* a record of getProfileInfo: it has the six fields, a gateway state, and,
\* when the configuration of its profile is missing or unparsable, the base
\* port and empty model, model id and channel
Degraded(dirs, r) ==
  /\ DOMAIN r = {"profile", "port", "gateway", "model", "modelId", "channel"}
  /\ r.gateway \in {"running", "stopped"}
  /\ ~Parses(dirs, r.profile) =>
       /\ r.port = JNum(BASE_PORT)
       /\ r.model = Empty
       /\ r.modelId = Empty
       /\ r.channel = Empty

\* C28: getProfileInfo returns a record for every profile name: when the
\* configuration is missing or unparsable the record has the base port and
\* empty model, model id and channel, and when the TCP probe fails the
\* gateway is "stopped"; getAllProfiles returns exactly one record for each
\* listed profile, whatever the state of any of them.
C28_InfoNeverFails ==
  /\ [](last.route = "info" => Degraded(fs, last.body[2]))
  /\ [](last.route = "/profiles" =>
          /\ last.status = 200
          /\ \A r \in last.body[2] : Degraded(fs, r)
          /\ { r.profile : r \in last.body[2] } = listProfiles(fs)
          /\ Cardinality(last.body[2]) = Cardinality(listProfiles(fs)))
  /\ [][\A p \in {DEFAULT, A, B} :
          \/ ~Info(p, FALSE)
          \/ /\ Degraded(fs, last'.body[2])
             /\ last'.body[2].gateway = "stopped"]_vars
  /\ [][\A up \in {{}, {A}} :
          \/ ~GetProfiles(NoHdr, up)
          \/ /\ last'.status = 200
             /\ \A r \in last'.body[2] : r.profile \notin up => r.gateway = "stopped"]_vars

(***************************************************************************)
(* A setup over a configuration that cannot be parsed                      *)
(***************************************************************************)
UNREADABLE_WARNING == <<"Warning: existing config unreadable, starting fresh">>

\* this step is a /setup-stream request, accepted, for a profile whose
\* openclaw.json exists and cannot be parsed
SetupOverUnparsable(id) ==
  /\ ticketValid(ticketStore, id, now)
  /\ existsCfg(fs, trim(OrElse(ticketStore[id].data.profile, DEFAULT)))
  /\ ~Parses(fs, trim(OrElse(ticketStore[id].data.profile, DEFAULT)))
  /\ SetupStream(NoHdr, id, "ok", TRUE)

\* the same host with the profile's directory holding no openclaw.json
WithoutCfg(dirs, profile) == Set(dirs, profileDir(profile), NoFile)

\* C29: when the existing openclaw.json of the profile cannot be parsed, the
\* setup pipeline does not fail: it warns, merges the generated document into
\* an empty base, writes the result (the generated document itself, the same
\* file it writes when there is no openclaw.json) and spawns the onboarding.
C29_UnparsableAsAbsent ==
  [][\A id \in 1..MaxTickets :
       \/ ~SetupOverUnparsable(id)
       \/ LET pipe == pipes'[id]
              dir == profileDir(pipe.profile)
          IN /\ last'.status = 200
             /\ fs'[dir] = deepMerge(EmptyObj, pipe.generated)
             /\ fs'[dir] = pipe.generated
             /\ fs'[dir] = setupExecutor(WithoutCfg(fs, pipe.profile), pipe.port,
                             pipe.profile, KEY, pipe.modelId, pipe.channel,
                             [botToken |-> trim(ticketStore[id].data.botToken),
                              appId |-> trim(ticketStore[id].data.appId),
                              appSecret |-> trim(ticketStore[id].data.appSecret)],
                             "ok", TRUE).fs[dir]
             /\ pipe.promise = "pending"
             /\ pipe.child = "running"
             /\ ~pipe.ended
             /\ [i \in 1..Len(pipe.out) |-> pipe.out[i].percent] = <<5, 5, 10, 15>>
             /\ pipe.out[2].message = UNREADABLE_WARNING]_vars

\* the setup of profile a, whose openclaw.json could not be parsed, has
\* finished: the warning was sent, the stream ended with the done event, and
\* the file now parses and holds the generated gateway port
C29_Witness ==
  /\ existsCfg(host0, A)
  /\ ~Parses(host0, A)
  /\ 1 \in DOMAIN pipes
  /\ pipes[1].out[2].message = UNREADABLE_WARNING
  /\ pipes[1].promise = "resolved"
  /\ Parses(fs, A)
  /\ readPort(fs, A) = JNum(pipes[1].port)

(***************************************************************************)
(* What a cancelled or failed setup leaves behind                          *)
(***************************************************************************)
\* the setup wrote its configuration, spawned the onboarding, and then
\* failed: the client went away, the subprocess exited with a code other
\* than 0, or it could not be spawned
FailedAfterWrite(pipe) == pipe.promise = "rejected" /\ pipe.child # "none"

\* this step handles a cancellation or a failure of the onboarding of setup id
FailureStep(id) ==
  \/ ClientClose(id)
  \/ OnError(id)
  \/ /\ id \in DOMAIN pipes
     /\ pipes[id].code # 0
     /\ \E installOK \in BOOLEAN, startOK \in BOOLEAN : OnClose(id, installOK, startOK)

\* C30: a cancelled or failed setup rolls nothing back.  The steps that
\* handle the cancellation or failure leave every directory and file as it
\* is; after the failure the profile's directory and the configuration with
\* the allocated port are on disk, the profile is listed, and its port is
\* in use for the allocator; a listed profile leaves the listing only by a
\* successful deletion, and every later setup is given a port no listed
\* profile holds.
C30_NoRollback ==
  /\ [][\A id \in 1..MaxSetups : FailureStep(id) => fs' = fs]_vars
  /\ [](\A id \in DOMAIN pipes :
          FailedAfterWrite(pipes[id]) =>
            /\ existsDir(fs, profileDir(pipes[id].profile))
            /\ Parses(fs, pipes[id].profile)
            /\ pipes[id].profile \in listProfiles(fs)
            /\ readPort(fs, pipes[id].profile) = JNum(pipes[id].port)
            /\ JNum(pipes[id].port) \in usedPorts(fs)
            /\ nextAvailablePort(fs) # pipes[id].port)
  /\ [][\A p \in {A, B} :
          p \in listProfiles(fs) /\ p \notin listProfiles(fs') =>
            last' = Response("/delete-profile", 0, 200, Ok)]_vars
  /\ [][\A id \in (DOMAIN pipes') \ (DOMAIN pipes) :
          JNum(pipes'[id].port) \notin usedPorts(fs)]_vars

\* the setup of the new profile a was cancelled while the onboarding ran:
\* the subprocess was killed, the stream ended with the error event, and a
\* is listed with the port the setup allocated
C30_Witness ==
  /\ 1 \in DOMAIN pipes
  /\ pipes[1].profile = A
  /\ pipes[1].abortedRunning
  /\ pipes[1].child = "closed"
  /\ FailedAfterWrite(pipes[1])
  /\ ~existsDir(host0, profileDir(A))
  /\ A \in listProfiles(fs)
  /\ readPort(fs, A) = JNum(pipes[1].port)
  /\ nextAvailablePort(fs) > pipes[1].port

(***************************************************************************)
(* Operations on two profiles, interleaved                                 *)
(***************************************************************************)
\* profiles a and b, each with or without a configuration, beside default
OpsInit ==
  \E a \in {Absent, PortDoc(BASE_PORT + 1)}, b \in {Absent, NoFile, ForeignDoc} :
    InitWith(FALSE, Empty, HostOf(PortDoc(BASE_PORT), a, b))

\* Setups, connects, model changes and deletions of a and b in any order; a
\* ticket is issued when none is outstanding, a profile is set up once, and
\* the other requests may arrive while the onboarding of a setup runs.
OpsNext ==
  \/ \E p \in {A, B} :
       /\ ticketStore = <<>>
       /\ \A id \in DOMAIN pipes : pipes[id].profile # p
       /\ SetupPrepare(NoHdr, SetupBody(p), MaxTickets)
  \/ \E p \in {A, B} : ticketStore = <<>> /\ ConnectPrepare(NoHdr, ConnectBody(p), MaxTickets)
  \/ \E id \in 1..MaxTickets :
       id \in DOMAIN ticketStore /\ SetupStream(NoHdr, id, "ok", TRUE)
  \/ \E id \in 1..MaxTickets :
       id \in DOMAIN ticketStore /\ ConnectStream(NoHdr, id, TRUE)
  \/ \E id \in 1..MaxTickets : ChildWrites(id)
  \/ \E id \in 1..MaxTickets : ChildExit(id, 0)
  \/ \E id \in 1..MaxTickets : OnClose(id, TRUE, TRUE)
  \/ \E p \in {A, B} : ticketStore = <<>> /\ ChangeModel(NoHdr, p, OPUS45, TRUE)
  \/ \E p \in {A, B} :
       /\ ticketStore = <<>>
       /\ existsDir(fs, profileDir(p))
       /\ DeleteProfile(NoHdr, p, TRUE, TRUE, TRUE)

OpsSpec == OpsInit /\ [][OpsNext]_vars

\* the profile a ticket names
TicketProfile(id) == trim(OrElse(ticketStore[id].data.profile, DEFAULT))

\* this step belongs to an operation on profile p: a request that names it,
\* or an event of the onboarding subprocess of its setup
OpOn(p) ==
  \/ \E id \in DOMAIN ticketStore :
       /\ TicketProfile(id) = p
       /\ \/ SetupStream(NoHdr, id, "ok", TRUE)
          \/ ConnectStream(NoHdr, id, TRUE)
  \/ \E id \in DOMAIN pipes :
       /\ pipes[id].profile = p
       /\ \/ ChildWrites(id)
          \/ ChildExit(id, 0)
          \/ OnClose(id, TRUE, TRUE)
  \/ ChangeModel(NoHdr, p, OPUS45, TRUE)
  \/ DeleteProfile(NoHdr, p, TRUE, TRUE, TRUE)

\* the directory of profile q and its openclaw.json are as they were
Untouched(q) ==
  /\ existsDir(fs', profileDir(q)) = existsDir(fs, profileDir(q))
  /\ existsDir(fs, profileDir(q)) => fs'[profileDir(q)] = fs[profileDir(q)]

\* C31: an operation on a profile writes only inside that profile's own
\* directory: every step of a setup (its onboarding and reconciliation
\* included), change-model, connect or delete of a profile leaves the
\* directory and the configuration of every other profile as they were,
\* however the operations on the two profiles interleave.
C31_OwnDirectoryOnly ==
  [][\A p \in {A, B} :
       OpOn(p) => \A q \in {DEFAULT, A, B} \ {p} : Untouched(q)]_vars

\* profile a was set up and then deleted while its onboarding had finished,
\* a setup of b is still running, and the default profile has the
\* configuration it started with
C31_Witness ==
  /\ \E id \in DOMAIN pipes : pipes[id].profile = A /\ pipes[id].promise = "resolved"
  /\ ~existsDir(fs, profileDir(A))
  /\ \E id \in DOMAIN pipes : pipes[id].profile = B /\ pipes[id].child = "running"
  /\ Parses(fs, B)
  /\ fs[profileDir(DEFAULT)] = host0[profileDir(DEFAULT)]

\* channels.telegram of a document
Telegram(doc) == Get(Get(doc, "channels"), "telegram")

\* a setup of profile p is in its onboarding stage
Onboarding(p) == \E id \in DOMAIN pipes : pipes[id].profile = p /\ pipes[id].child = "running"

\* C32: operations on one profile are not serialized and the last writer
\* wins.  While the onboarding of a setup of the profile runs, a change-model
\* request is accepted and written (the primary model is the requested
\* one), and so is an allowlist update; when the onboarding then exits with
\* code 0 and the file parses, the reconciliation writes the pipeline's own
\* generated values over them: the primary model is again the one of the
\* setup, and for a telegram setup dmPolicy is again "pairing" (the allowFrom
\* list, which the generated document does not hold, stays).
C32_LastWriterWins ==
  /\ [][\A p \in {A, B} :
          \/ ~(Onboarding(p) /\ Parses(fs, p) /\ ChangeModel(NoHdr, p, OPUS45, TRUE))
          \/ /\ last'.status = 200
             /\ Primary(fs'[profileDir(p)]) = JStr(<<"anthropic", "/">> \o OPUS45)
             /\ pipes' = pipes]_vars
  /\ [][\A id \in 1..MaxTickets :
          \/ ~(id \in DOMAIN ticketStore /\ Onboarding(TicketProfile(id))
                 /\ Parses(fs, TicketProfile(id)) /\ ConnectStream(NoHdr, id, TRUE))
          \/ /\ last'.status = 200
             /\ Get(Telegram(fs'[profileDir(TicketProfile(id))]), "dmPolicy") = JStr(ALLOWLIST)
             /\ pipes' = pipes]_vars
  /\ [][\A id \in DOMAIN pipes :
          \/ ~(pipes[id].code = 0 /\ Parses(fs, pipes[id].profile) /\ OnClose(id, TRUE, TRUE))
          \/ LET dir == profileDir(pipes[id].profile)
             IN /\ Primary(fs'[dir]) = Primary(pipes[id].generated)
                /\ Get(Telegram(fs'[dir]), "dmPolicy") = JStr(<<"pairing">>)
                /\ Get(Telegram(fs'[dir]), "allowFrom") = Get(Telegram(fs[dir]), "allowFrom")]_vars

\* the new profile a was given an allowlist entry while its onboarding ran
\* and the setup then finished: the entry is there, and dmPolicy is the
\* "pairing" of the setup, not the "allowlist" the connect had written
C32_Witness ==
  /\ ~existsDir(host0, profileDir(A))
  /\ \E id \in DOMAIN pipes :
       /\ pipes[id].profile = A
       /\ pipes[id].promise = "resolved"
       /\ pipes[id].reconciled
  /\ Parses(fs, A)
  /\ Get(Telegram(fs[profileDir(A)]), "allowFrom") = JArr(<<JStr(TG_USER)>>)
  /\ Get(Telegram(fs[profileDir(A)]), "dmPolicy") = JStr(<<"pairing">>)
  /\ Primary(fs[profileDir(A)]) = JStr(<<"anthropic", "/">> \o OPUS46)

(***************************************************************************)
(* The gateway install before a start or restart                           *)
(***************************************************************************)
\* C33: startGateway and restartGateway run "gateway install" first and then
\* "gateway start" (respectively "gateway restart"), whatever the install
\* did: the request is answered 200 exactly when the start (restart) command
\* succeeds and with the 500 error of its route exactly when that command
\* fails, whether the install succeeded or failed, and in every case both
\* commands were run and no file was touched.
C33_InstallBestEffort ==
  /\ [][\A name \in RouteNames, installOK \in BOOLEAN, startOK \in BOOLEAN :
          \/ ~StartGateway(NoHdr, name, installOK, startOK)
          \/ /\ startGatewayCalls(name)[1] = <<name, "install">>
             /\ cmds' = {<<name, "install">>, <<name, "start">>}
             /\ startOK => last' = Response("/start-gateway", 0, 200, Ok)
             /\ ~startOK => last' = Response("/start-gateway", 0, 500,
                                              Err("Failed to start gateway."))
             /\ fs' = fs]_vars
  /\ [][\A name \in RouteNames, installOK \in BOOLEAN, restartOK \in BOOLEAN :
          \/ ~RestartGateway(NoHdr, name, installOK, restartOK)
          \/ /\ restartGatewayCalls(name)[1] = <<name, "install">>
             /\ cmds' = {<<name, "install">>, <<name, "restart">>}
             /\ restartOK => last' = Response("/restart-gateway", 0, 200, Ok)
             /\ ~restartOK => last' = Response("/restart-gateway", 0, 500,
                                                Err("Failed to restart gateway."))
             /\ fs' = fs]_vars

\* a start of the gateway of profile a failed: install and start were run
\* and the answer is the 500 of the route
C33_Witness ==
  /\ last = Response("/start-gateway", 0, 500, Err("Failed to start gateway."))
  /\ cmds = {<<A, "install">>, <<A, "start">>}

(***************************************************************************)
(* Writes to a stream that has ended                                       *)
(***************************************************************************)
\* C34: on an accepted setup stream nothing is written after the terminal
\* event: once the done or error event was sent and the response ended, no
\* later event of the subprocess makes sendProgress write to the stream.
C34_NoWriteAfterEnd ==
  \A id \in DOMAIN pipes : pipes[id].ended => ~pipes[id].lateWrite

\* this step is a /setup-stream request, accepted, whose pipeline reaches the spawn
SetupAccepted(id) ==
  /\ id \in DOMAIN ticketStore
  /\ ticketValid(ticketStore, id, now)
  /\ SetupStream(NoHdr, id, "ok", TRUE)
  /\ id \in DOMAIN pipes'
  /\ pipes'[id].child = "running"

\* this step is the close handler of setup id settling its promise with success
SetupResolves(id) ==
  /\ id \in DOMAIN pipes
  /\ pipes[id].promise = "pending"
  /\ OnClose(id, TRUE, TRUE)
  /\ pipes'[id].promise = "resolved"

\* the ports of the done events of a pipe
DonePorts(pipe) == { pipe.out[i].port : i \in { j \in DOMAIN pipe.out : pipe.out[j].kind = "done" } }

\* C35: a setup is given the smallest port from the base on that no listed
\* profile has at the moment of the allocation, the profile being set up
\* included, so that a setup of a profile that is already listed never keeps
\* the profile's port; this one value is written to gateway.port, is the
\* --gateway-port argument of the onboarding, stays in gateway.port after the
\* reconciliation and is the port of the done event.
C35_ResetupMovesPort ==
  [][\A id \in 1..MaxTickets :
       /\ \/ ~SetupAccepted(id)
          \/ LET pipe == pipes'[id]
                 dir == profileDir(pipe.profile)
                 n == Len(pipe.args)
             IN /\ IsSmallestFree({ readPort(fs, p) : p \in listProfiles(fs) }, pipe.port)
                /\ pipe.profile \in listProfiles(fs) => JNum(pipe.port) # readPort(fs, pipe.profile)
                /\ Get(Get(fs'[dir], "gateway"), "port") = JNum(pipe.port)
                /\ pipe.args[n - 1] = "--gateway-port"
                /\ pipe.args[n] = NumString(pipe.port)
                /\ pipe.args[n] = NumString(Get(Get(fs'[dir], "gateway"), "port")[2])
       /\ \/ ~SetupResolves(id)
          \/ LET pipe == pipes'[id]
             IN /\ pipe.port = pipes[id].port
                /\ DonePorts(pipe) = {pipe.port}
                /\ Parses(fs, pipe.profile) =>
                     Get(Get(fs'[profileDir(pipe.profile)], "gateway"), "port") = JNum(pipe.port)]_vars

\* a profile listed with port BASE_PORT + 1 was set up again and its setup
\* ended with a done event carrying another port
C35_Witness ==
  /\ existsCfg(host0, A)
  /\ Parses(host0, A)
  /\ readPort(host0, A) = JNum(BASE_PORT + 1)
  /\ \E id \in DOMAIN pipes :
       /\ pipes[id].profile = A
       /\ pipes[id].promise = "resolved"
       /\ DonePorts(pipes[id]) = {BASE_PORT + 2}
       /\ Parses(fs, A)
       /\ readPort(fs, A) = JNum(BASE_PORT + 2)


(***************************************************************************)
(* The allow list: connects of two users to a profile whose document       *)
(* already holds an allow list of strings, of numbers, or something that   *)
(* is no list                                                              *)
(***************************************************************************)
TG_OTHER == <<"7">>

AllowDoc(allowFrom) ==
  JObj([ channels |-> JObj([ telegram |-> JObj([ enabled |-> JBool(TRUE),
                                                 dmPolicy |-> JStr(<<"pairing">>),
                                                 allowFrom |-> allowFrom ]) ]),
         gateway |-> JObj([ port |-> JNum(BASE_PORT) ]) ])

AllowDocs ==
  { PortDoc(BASE_PORT),
    AllowDoc(JArr(<<>>)),
    AllowDoc(JArr(<<JStr(TG_OTHER)>>)),
    AllowDoc(JArr(<<JNum(42)>>)),
    AllowDoc(JArr(<<JNum(7), JStr(TG_USER)>>)),
    AllowDoc(JArr(<<JStr(TG_USER), JNum(0 - 7), JStr(TG_USER)>>)),
    AllowDoc(JStr(TG_USER)) }

AllowInit == \E a \in AllowDocs : InitWith(FALSE, Empty, HostOf(Absent, a, Absent))

AllowNext ==
  \/ \E user \in {TG_USER, TG_OTHER} :
       ConnectPrepare(NoHdr, [ConnectBody(A) EXCEPT !.telegramId = user], MaxTickets)
  \/ \E id \in 1..MaxTickets, restartOK \in BOOLEAN :
       id \in DOMAIN ticketStore /\ ConnectStream(NoHdr, id, restartOK)
  \/ ticketStore = <<>> /\ ChangeModel(NoHdr, A, OPUS45, TRUE)

AllowSpec == AllowInit /\ [][AllowNext]_vars

\* config.channels.telegram.allowFrom || [], as a sequence of values
AllowFrom(doc) ==
  IF Truthy(Get(Telegram(doc), "allowFrom")) THEN Get(Telegram(doc), "allowFrom")[2] ELSE <<>>

\* this step is a /connect-stream request of ticket id that ends with the done event
Connected(id) ==
  /\ id \in DOMAIN ticketStore
  /\ \E restartOK \in BOOLEAN : ConnectStream(NoHdr, id, restartOK)
  /\ last'.status = 200
  /\ last'.body[2][Len(last'.body[2])].kind = "done"

\* how often value v occurs in sequence q
Occurrences(q, v) == Cardinality({ i \in DOMAIN q : q[i][1] = v[1] /\ q[i] = v })

\* C36 as stated: after a successful connect every entry the allow list held
\* before is still one of its entries.
C36_EntriesPreserved ==
  [][\A id \in 1..MaxTickets :
       \/ ~Connected(id)
       \/ \A i \in DOMAIN AllowFrom(fs[profileDir(A)]) :
            Occurrences(AllowFrom(fs'[profileDir(A)]), AllowFrom(fs[profileDir(A)])[i]) > 0]_vars

\* C36: after every successful connect of a user id, dmPolicy is "allowlist"
\* and the allow list is the list it was before with every entry turned into
\* its String form, in the same order, followed by the user id when no
\* String form equals it; so the user id is added at most once, an entry that
\* was a string stays as it was, and a second connect of the same user id
\* writes the file the first one wrote.
C36_AllowlistIdempotent ==
  [][\A id \in 1..MaxTickets :
       \/ ~Connected(id)
       \/ LET user == trim(ticketStore[id].data.telegramId)
              old == AllowFrom(fs[profileDir(A)])
              new == AllowFrom(fs'[profileDir(A)])
              asStrings == [i \in DOMAIN old |-> String(old[i])]
          IN /\ Get(Telegram(fs'[profileDir(A)]), "dmPolicy") = JStr(ALLOWLIST)
             /\ new = IF Occurrences(asStrings, JStr(user)) > 0 THEN asStrings
                      ELSE Append(asStrings, JStr(user))
             /\ \A i \in DOMAIN old : old[i][1] = "str" => new[i] = old[i]
             /\ Occurrences(new, JStr(user)) >= 1
             /\ Occurrences(new, JStr(user)) <= 1 + Occurrences(asStrings, JStr(user))
             /\ \A restartOK \in BOOLEAN :
                  /\ connectTelegramUser(fs', A, user, restartOK).ok
                  /\ connectTelegramUser(fs', A, user, restartOK).fs = fs']_vars

\* the allow list held the number 42 alone; two connects were answered, both
\* of user "42" (a connect of the other user would have added it), and the
\* list is the string "42" alone
C36_Witness ==
  /\ AllowFrom(host0[profileDir(A)]) = <<JNum(42)>>
  /\ AllowFrom(fs[profileDir(A)]) = <<JStr(TG_USER)>>
  /\ redeemCount(1) = 1
  /\ redeemCount(2) = 1
  /\ ghostStore = <<>>
  /\ last.route = "/connect-stream"
  /\ last.ticket = 2
  /\ last.status = 200

=============================================================================
